---- MODULE Spec2Model ----
(***************************************************************************)
(* A model of litetracker-mcp: the local cache store (internal/db/db.go)   *)
(* and its startup, the sync engine (internal/sync), the snapshot manager, *)
(* the poll/notify loop and the daemon's shutdown (main.go) and the        *)
(* session client for writes (internal/api).                               *)
(* Each component has its own specification over the shared variables.      *)
(***************************************************************************)
EXTENDS Integers, Sequences, FiniteSets, TLC

VARIABLES
    stories,     \* the stories table: a set of rows
    comments,    \* the comments table: a set of rows
    lastCall,    \* the store call that ran last: its arguments and outcome
    webOnce,     \* webOnce has run
    webClients,  \* the number of WebClient values constructed
    mu,          \* wc.mu: 0 when free, else the caller that holds it
    loggedIn,    \* wc.loggedIn
    lockedUse,   \* every read and write of wc.loggedIn so far was made holding wc.mu
    credsSet,    \* config.C.Email and config.C.Password are both set
    remoteOwners,\* the remote service: the owner list of the story
    callers,     \* per caller of the write API: position and arguments
    log,         \* the events of the write calls since wc.mu was last taken
    lastRet,     \* what the write call that returned last returned
    dbFile,      \* the file at dbPath(): the version of the database it holds
    snapFile,    \* the file at snapPath(), the published snapshot
    tmpFile,     \* the file at snapPath() + ".tmp"
    snapCall,    \* CreateSnapshot: its position, the data it read, its last result
    clock,       \* the wall clock, in ticks
    state,       \* runDaemon's pollState value
    stateFile,   \* the file at pollStatePath()
    pollCall,    \* poll: its position, since, now and the next project
    fetches,     \* the GetProjectActivity calls of the cycle in progress
    sent,        \* the notify.Send calls of the cycle in progress
    lastCycle,   \* the poll cycle that completed last
    CUsername,    \* config.C.Username as the daemon reads it ("" when unset)
    loaded,      \* the last loadPollState: the clock then, and whether the file was read
    syncCall,    \* syncProject: its position and locals
    passes,      \* the number of syncProject passes started
    conn,        \* db.conn: not opened yet, open, or closed
    schemaTable, \* the schema_version table of the database file
    tables,      \* the data tables that exist in the database file
    initCall,    \* InitializeDatabase: its position, the store it found, its result
    daemon,      \* runDaemon: its position in the loop
    tickerC,     \* ticker.C: the ticks buffered in the channel
    sigCh,       \* sigCh: the signals buffered in the channel
    signals,     \* the termination signals delivered to the process
    started,     \* the operations the loop started, each with conn at its start
    process,     \* the process: its command, its position, its last write call
    CToken,      \* LITETRACKER_TOKEN as config.Init reads it ("" when unset)
    net          \* the kinds of network request the process has sent

storeVars == <<stories, comments, lastCall>>
webVars == <<webOnce, webClients, mu, loggedIn, lockedUse, credsSet, remoteOwners,
             callers, log, lastRet>>
snapVars == <<dbFile, snapFile, tmpFile, snapCall>>
pollVars == <<clock, state, stateFile, pollCall, fetches, sent, lastCycle, CUsername,
             loaded>>
syncVars == <<syncCall, passes>>
bootVars == <<schemaTable, tables, initCall>>
daemonVars == <<daemon, tickerC, sigCh, signals, started>>
cfgVars == <<process, CToken, net>>
procVars == <<conn, bootVars, daemonVars, cfgVars>>

\* What the actions of one component leave alone.
nonStoreVars == <<webVars, snapVars, pollVars, syncVars, procVars>>
nonWebVars == <<storeVars, snapVars, pollVars, syncVars, procVars>>
nonSnapVars == <<storeVars, webVars, pollVars, syncVars, procVars>>
nonPollVars == <<storeVars, webVars, snapVars, syncVars, procVars>>
nonSyncVars == <<webVars, snapVars, pollVars, procVars>>
nonBootVars == <<webVars, snapVars, pollVars, syncVars, daemonVars, cfgVars>>
nonDaemonVars == <<storeVars, webVars, snapVars, pollVars, syncVars, bootVars, cfgVars>>
nonCfgVars == <<storeVars, snapVars, pollVars, syncVars, conn, bootVars, daemonVars>>

vars == <<stories, comments, lastCall,
          webOnce, webClients, mu, loggedIn, lockedUse, credsSet, remoteOwners,
          callers, log, lastRet,
          dbFile, snapFile, tmpFile, snapCall,
          clock, state, stateFile, pollCall, fetches, sent, lastCycle, CUsername, loaded,
          syncCall, passes,
          conn, schemaTable, tables, initCall,
          daemon, tickerC, sigCh, signals, started,
          process, CToken, net>>

----------------------------------------------------------------------------
(* Bounds of the model *)

MaxStoryId == 2
MaxCommentId == 1
MaxProjectId == 2

StoryIds == 1..MaxStoryId
CommentIds == 1..MaxCommentId
ProjectIds == 1..MaxProjectId

----------------------------------------------------------------------------
(* Dates.  The service sends "DD Mon YYYY, HH:MMAM/PM".  A date text is      *)
(* carried by what the regular expression of ParseApiDate sees in it: no    *)
(* text at all, a text the expression does not match, or the six groups of  *)
(* a text it matches.                                                      *)

NULL == <<>>

DateText(form, day, mon, year, hour, min, ampm) ==
    [form |-> form, day |-> day, mon |-> mon, year |-> year,
     hour |-> hour, min |-> min, ampm |-> ampm]

EmptyDate == DateText("empty", 0, "", 0, 0, 0, "")
GarbageDate == DateText("nomatch", 0, "", 0, 0, 0, "")
GoodDate == DateText("match", 11, "Feb", 2026, 4, 30, "PM")

DateTexts == {EmptyDate, GarbageDate, GoodDate}

months ==
    [m \in {"Jan", "Feb", "Mar", "Apr", "May", "Jun",
            "Jul", "Aug", "Sep", "Oct", "Nov", "Dec"} |->
        CASE m = "Jan" -> 1 [] m = "Feb" -> 2 [] m = "Mar" -> 3
          [] m = "Apr" -> 4 [] m = "May" -> 5 [] m = "Jun" -> 6
          [] m = "Jul" -> 7 [] m = "Aug" -> 8 [] m = "Sep" -> 9
          [] m = "Oct" -> 10 [] m = "Nov" -> 11 [] m = "Dec" -> 12]

\* ParseApiDate: NULL (nil) or the ISO timestamp <<year, month, day, hour, min>>.
ParseApiDate(dateStr) ==
    IF dateStr.form = "empty" THEN NULL
    ELSE IF dateStr.form # "match" THEN NULL
    ELSE IF dateStr.mon \notin DOMAIN months THEN NULL
    ELSE LET hour == IF dateStr.ampm = "PM" /\ dateStr.hour # 12
                         THEN dateStr.hour + 12
                     ELSE IF dateStr.ampm = "AM" /\ dateStr.hour = 12
                         THEN 0
                     ELSE dateStr.hour
         IN  <<dateStr.year, months[dateStr.mon], dateStr.day, hour, dateStr.min>>

DaysIn(year, month) ==
    IF month \in {4, 6, 9, 11} THEN 30
    ELSE IF month # 2 THEN 31
    ELSE IF year % 4 = 0 /\ (year % 100 # 0 \/ year % 400 = 0) THEN 29
    ELSE 28

\* TRY_CAST(? AS TIMESTAMP): NULL for NULL and for a text that is no timestamp.
TryCastTimestamp(iso) ==
    IF iso = NULL THEN NULL
    ELSE IF /\ iso[3] \in 1..DaysIn(iso[1], iso[2])
            /\ iso[4] \in 0..23
            /\ iso[5] \in 0..59
         THEN iso
    ELSE NULL

----------------------------------------------------------------------------
(* The session client for writes (internal/api/webclient.go).  Callers are  *)
(* goroutines of the one process; every HTTP exchange is two steps, the     *)
(* request sent and the response received, so that requests in flight are   *)
(* states of the model.  log holds the events of the calls since the lock   *)
(* was last taken, lastRet what the last call returned.                     *)

MaxCallers == 2
MaxUserId == 2

Callers == 1..MaxCallers
UserIds == 1..MaxUserId

Ops == {"WebPostComment", "WebAddLabel", "WebAddOwner"}

\* An error of a write operation, by what its message holds: the status of
\* the response (0: no response, a transport error) and a marker for text in
\* the rest of the message: the body excerpt of a response, or the request
\* URL that a transport error quotes ("post comment: Post
\* \".../api/v1/stories/401/comments\": ..." for story 401).
WriteErr(status, marker) == [status |-> status, marker |-> marker]

WriteErrors ==
    {WriteErr(401, "none"), WriteErr(500, "none"),
     WriteErr(500, "sign in"), WriteErr(0, "none"), WriteErr(0, "401")}

\* strings.Contains(err.Error(), "401") || strings.Contains(err.Error(), "sign in")
IsSessionExpiry(err) ==
    \/ err.status = 401
    \/ err.marker = "401"
    \/ err.marker = "sign in"

\* Statuses of the response to the login POST.
LoginStatuses == {200, 401, 403, 422, 500}

\* resp.StatusCode == 422 || resp.StatusCode == 401
LoginRejected(status) == status = 422 \/ status = 401

\* What a write returns without error: a Comment, a Label or an owner list.
Val(kind, owners) == [kind |-> kind, owners |-> owners]

Ok(val) == [ok |-> TRUE, val |-> val, err |-> WriteErr(0, "none")]
Err(e) == [ok |-> FALSE, val |-> Val("none", <<>>), err |-> e]

\* The errors ensureLoggedIn returns: which step failed, and the status of
\* the login POST when that is what failed.
LoginErr(what, status) == [status |-> status, marker |-> what]

OwnerLists ==
    {<<>>} \cup {<<a>> : a \in UserIds} \cup {p \in UserIds \X UserIds : p[1] # p[2]}

InList(list, x) == \E i \in 1..Len(list) : list[i] = x

\* addOwner without the test for an owner already in the list.
addOwnerPlanAlwaysPut(owners, ownerID) ==
    [put |-> TRUE, ids |-> Append(owners, ownerID)]

\* addOwner that replaces the owner list by the new owner alone.
addOwnerPlanOnlyNew(owners, ownerID) ==
    IF InList(owners, ownerID)
    THEN [put |-> FALSE, ids |-> owners]
    ELSE [put |-> TRUE, ids |-> <<ownerID>>]

\* The loop of addOwner over story.Owners: the owner is found (return the
\* list as read) or the id list to PUT is all owners' ids and then ownerID.
addOwnerPlan(owners, ownerID) ==
    IF InList(owners, ownerID)
    THEN [put |-> FALSE, ids |-> owners]
    ELSE [put |-> TRUE, ids |-> Append(owners, ownerID)]

\* A wrapper that re-logs in and retries after every expiry, not only the first.
NeedsReloginEveryTime(phase, res) ==
    ~res.ok /\ IsSessionExpiry(res.err)

\* The wrappers' test for the one re-login: the first attempt failed and the
\* message names a session expiry.
NeedsRelogin(phase, res) ==
    phase = 1 /\ ~res.ok /\ IsSessionExpiry(res.err)

Idle == [pc |-> "idle", op |-> "none", ownerID |-> 0, phase |-> 0, ids |-> <<>>]

\* An event of the log: the caller, the owner id its call was given, what
\* happened and the result.
Event(c, ev, res) ==
    [caller |-> c, ownerID |-> callers[c].ownerID, ev |-> ev, res |-> res]

NoRet == [caller |-> 0, op |-> "none", ownerID |-> 0, res |-> Ok(Val("none", <<>>)),
          loggedIn |-> FALSE]

\* getWebClient: webOnce.Do constructs the client on the first call only.
getWebClient ==
    /\ webOnce' = TRUE
    /\ webClients' = IF webOnce THEN webClients ELSE webClients + 1

\* A caller enters WebPostComment, WebAddLabel or WebAddOwner.
WebCall(c, op, ownerID) ==
    /\ callers[c].pc = "idle"
    /\ getWebClient
    /\ callers' = [callers EXCEPT ![c] =
           [Idle EXCEPT !.pc = "lock", !.op = op,
                        !.ownerID = IF op = "WebAddOwner" THEN ownerID ELSE 0]]
    /\ UNCHANGED <<mu, loggedIn, lockedUse, credsSet, remoteOwners, log, lastRet>>
    /\ UNCHANGED nonWebVars

\* A caller that goes on without waiting for wc.mu.
LockNoWait(c) ==
    /\ callers[c].pc = "lock"
    /\ mu' = c
    /\ callers' = [callers EXCEPT ![c].pc = "login", ![c].phase = 1]
    /\ log' = <<>>
    /\ lastRet' = NoRet
    /\ UNCHANGED <<webOnce, webClients, loggedIn, lockedUse, credsSet, remoteOwners>>
    /\ UNCHANGED nonWebVars

\* wc.mu.Lock()
Lock(c) ==
    /\ callers[c].pc = "lock"
    /\ mu = 0
    /\ mu' = c
    /\ callers' = [callers EXCEPT ![c].pc = "login", ![c].phase = 1]
    /\ log' = <<>>
    /\ lastRet' = NoRet
    /\ UNCHANGED <<webOnce, webClients, loggedIn, lockedUse, credsSet, remoteOwners>>
    /\ UNCHANGED nonWebVars

\* The function returns res: the deferred wc.mu.Unlock() runs.
Return(c, events, res) ==
    /\ callers' = [callers EXCEPT ![c] = Idle]
    /\ log' = events
    /\ lastRet' = [caller |-> c, op |-> callers[c].op, ownerID |-> callers[c].ownerID,
                   res |-> res, loggedIn |-> loggedIn]
    /\ mu' = 0

\* ensureLoggedIn up to its first request: return nil when logged in, an
\* error when the credentials are missing, else GET /login.
EnsureLoggedIn(c) ==
    /\ callers[c].pc = "login"
    /\ lockedUse' = (lockedUse /\ mu = c)
    /\ IF loggedIn
       THEN /\ callers' = [callers EXCEPT ![c].pc = "write"]
            /\ UNCHANGED <<mu, log, lastRet>>
       ELSE IF ~credsSet
       THEN Return(c, Append(log, Event(c, "login", Err(LoginErr("config", 0)))),
                   Err(LoginErr("config", 0)))
       ELSE /\ callers' = [callers EXCEPT ![c].pc = "getLogin"]
            /\ UNCHANGED <<mu, log, lastRet>>
    /\ UNCHANGED <<webOnce, webClients, loggedIn, credsSet, remoteOwners>>
    /\ UNCHANGED nonWebVars

\* The response to GET /login: a transport error, a page without the CSRF
\* token, or a page with it (then the login POST is sent).
RecvLoginPage(c, page) ==
    /\ callers[c].pc = "getLogin"
    /\ IF page = "token"
       THEN /\ callers' = [callers EXCEPT ![c].pc = "postLogin"]
            /\ UNCHANGED <<mu, log, lastRet>>
       ELSE Return(c, Append(log, Event(c, "login", Err(LoginErr(page, 0)))),
                   Err(LoginErr(page, 0)))
    /\ UNCHANGED <<webOnce, webClients, loggedIn, lockedUse, credsSet, remoteOwners>>
    /\ UNCHANGED nonWebVars

\* An ensureLoggedIn that takes only a status of success for a login.
LoginOutcomeOnlySuccess(status) ==
    IF status = 200
    THEN [ok |-> TRUE, loggedIn |-> TRUE]
    ELSE [ok |-> FALSE, loggedIn |-> FALSE]

\* An ensureLoggedIn that returns nil after a login without setting loggedIn.
LoginOutcomeFlagNotSet(status) ==
    IF status = 0 \/ LoginRejected(status)
    THEN [ok |-> FALSE, loggedIn |-> FALSE]
    ELSE [ok |-> TRUE, loggedIn |-> FALSE]

\* What ensureLoggedIn makes of the response to POST /login (status 0: a
\* transport error): the error it returns, or wc.loggedIn = true.
LoginOutcome(status) ==
    IF status = 0 \/ LoginRejected(status)
    THEN [ok |-> FALSE, loggedIn |-> FALSE]
    ELSE [ok |-> TRUE, loggedIn |-> TRUE]

\* A wrapper that goes on to the write after ensureLoggedIn returned an error.
RecvLoginPostIgnoreError(c, status) ==
    /\ callers[c].pc = "postLogin"
    /\ loggedIn' = (loggedIn \/ LoginOutcome(status).loggedIn)
    /\ lockedUse' = (lockedUse /\ mu = c)
    /\ callers' = [callers EXCEPT ![c].pc = "write"]
    /\ log' = Append(log, Event(c, "login",
                 IF LoginOutcome(status).ok THEN Ok(Val("login", <<status>>))
                 ELSE Err(LoginErr("login", status))))
    /\ UNCHANGED <<mu, lastRet>>
    /\ UNCHANGED <<webOnce, webClients, credsSet, remoteOwners>>
    /\ UNCHANGED nonWebVars

\* The response to POST /login.
RecvLoginPost(c, status) ==
    /\ callers[c].pc = "postLogin"
    /\ IF ~LoginOutcome(status).ok
       THEN /\ Return(c, Append(log, Event(c, "login", Err(LoginErr("login", status)))),
                      Err(LoginErr("login", status)))
            /\ UNCHANGED <<loggedIn, lockedUse>>
       ELSE /\ loggedIn' = LoginOutcome(status).loggedIn
            /\ lockedUse' = (lockedUse /\ mu = c)
            /\ callers' = [callers EXCEPT ![c].pc = "write"]
            /\ log' = Append(log, Event(c, "login", Ok(Val("login", <<status>>))))
            /\ UNCHANGED <<mu, lastRet>>
    /\ UNCHANGED <<webOnce, webClients, credsSet, remoteOwners>>
    /\ UNCHANGED nonWebVars

\* After an attempt of the write returned res: the one re-login, or return.
FinishAttempt(c, events, res) ==
    IF NeedsRelogin(callers[c].phase, res)
    THEN /\ loggedIn' = FALSE
         /\ lockedUse' = (lockedUse /\ mu = c)
         /\ callers' = [callers EXCEPT ![c].pc = "login", ![c].phase = 2]
         /\ log' = events
         /\ UNCHANGED <<mu, lastRet>>
    ELSE /\ Return(c, events, res)
         /\ UNCHANGED <<loggedIn, lockedUse>>

\* The write starts: postComment and addLabel send their POST on the session
\* client; addOwner first asks the v5 API for the story (GetStory).
StartWrite(c) ==
    /\ callers[c].pc = "write"
    /\ callers' = [callers EXCEPT ![c].pc =
           IF callers[c].op = "WebAddOwner" THEN "waitStory" ELSE "waitWrite"]
    /\ UNCHANGED <<webOnce, webClients, mu, loggedIn, lockedUse, credsSet,
                   remoteOwners, log, lastRet>>
    /\ UNCHANGED nonWebVars

\* The response to the POST of postComment or addLabel.
RecvWrite(c, res) ==
    /\ callers[c].pc = "waitWrite"
    /\ FinishAttempt(c, Append(log, Event(c, "write", res)), res)
    /\ UNCHANGED <<webOnce, webClients, credsSet, remoteOwners>>
    /\ UNCHANGED nonWebVars

\* addOwner after GetStory: an error is returned; an owner list that holds
\* ownerID is returned as read; else the PUT with the new id list is sent.
RecvStory(c, res) ==
    /\ callers[c].pc = "waitStory"
    /\ LET h == Append(log, Event(c, "getstory", res))
           plan == addOwnerPlan(res.val.owners, callers[c].ownerID)
       IN  IF ~res.ok
           THEN FinishAttempt(c, Append(h, Event(c, "write", res)), res)
           ELSE IF ~plan.put
           THEN FinishAttempt(c, Append(h, Event(c, "write", Ok(Val("owners", plan.ids)))),
                              Ok(Val("owners", plan.ids)))
           ELSE /\ callers' = [callers EXCEPT ![c].pc = "waitPut", ![c].ids = plan.ids]
                /\ log' = Append(h, Event(c, "put", Ok(Val("owners", plan.ids))))
                /\ UNCHANGED <<mu, loggedIn, lockedUse, lastRet>>
    /\ UNCHANGED <<webOnce, webClients, credsSet, remoteOwners>>
    /\ UNCHANGED nonWebVars

\* The response to the PUT of addOwner.  A status below 400 means the remote
\* replaced the owner list; after a transport error the remote may or may
\* not have applied the PUT.
RecvPut(c, res, applied) ==
    /\ callers[c].pc = "waitPut"
    /\ applied = (res.ok \/ (applied /\ res.err.status = 0))
    /\ remoteOwners' = IF applied THEN callers[c].ids ELSE remoteOwners
    /\ FinishAttempt(c, Append(log, Event(c, "write", res)), res)
    /\ UNCHANGED <<webOnce, webClients, credsSet>>
    /\ UNCHANGED nonWebVars

WriteFailures == {Err(e) : e \in WriteErrors}

\* The responses a caller can get to the POST of postComment or addLabel.
PostResults(c) ==
    {Ok(Val(IF callers[c].op = "WebPostComment" THEN "comment" ELSE "label", <<>>))}
        \cup WriteFailures

\* The responses to GetStory: the story's owners as the remote has them.
StoryResults == {Ok(Val("owners", remoteOwners))} \cup WriteFailures

\* The responses to the PUT: the decoded body holds the new owners, or none.
PutResults(c) ==
    {Ok(Val("owners", callers[c].ids)), Ok(Val("owners", <<>>))} \cup WriteFailures

\* The process before the first write call.
WebInit ==
    /\ webOnce = FALSE
    /\ webClients = 0
    /\ mu = 0
    /\ loggedIn = FALSE
    /\ lockedUse = TRUE
    /\ credsSet \in BOOLEAN
    /\ remoteOwners \in OwnerLists
    /\ callers = [c \in Callers |-> Idle]
    /\ log = <<>>
    /\ lastRet = NoRet

WebParked ==
    /\ webOnce = FALSE
    /\ webClients = 0
    /\ mu = 0
    /\ loggedIn = FALSE
    /\ lockedUse = TRUE
    /\ credsSet = TRUE
    /\ remoteOwners = <<>>
    /\ callers = [c \in Callers |-> Idle]
    /\ log = <<>>
    /\ lastRet = NoRet

WebNext ==
    \E c \in Callers :
        \/ \E op \in Ops, ownerID \in UserIds : WebCall(c, op, ownerID)
        \/ Lock(c)
        \/ EnsureLoggedIn(c)
        \/ \E page \in {"transport", "no_token", "token"} : RecvLoginPage(c, page)
        \/ \E status \in LoginStatuses \cup {0} : RecvLoginPost(c, status)
        \/ StartWrite(c)
        \/ \E res \in PostResults(c) : RecvWrite(c, res)
        \/ \E res \in StoryResults : RecvStory(c, res)
        \/ \E res \in PutResults(c), applied \in BOOLEAN : RecvPut(c, res, applied)

----------------------------------------------------------------------------
(* The store (internal/db/db.go).  A story row carries id, project_id,      *)
(* title, is_mine, mentions_me, created_at and updated_at.  The columns     *)
(* description, story_type, current_state, estimate, priority, url,         *)
(* requested_by_id, owner_names and label_names are written exactly as      *)
(* title is (x = excluded.x) and are carried by title; synced_at is the     *)
(* wall clock of the call and is not carried.                               *)

\* What a call carries besides its keys: the checked payloads differ in every
\* field and hold each kind of date text.
StoryPayloads ==
    {[Title |-> "t1", IsMine |-> FALSE, CreatedAt |-> GoodDate, UpdatedAt |-> GoodDate],
     [Title |-> "t2", IsMine |-> TRUE, CreatedAt |-> EmptyDate, UpdatedAt |-> GarbageDate]}

CommentPayloads ==
    {[Text |-> <<"c", "1">>, CreatedAt |-> GoodDate],
     [Text |-> <<"c", "2">>, CreatedAt |-> GarbageDate]}

\* db.StoryRow
StoryRow ==
    {[ID |-> id, ProjectID |-> pid, Title |-> p.Title, IsMine |-> p.IsMine,
      MentionsMe |-> m, CreatedAt |-> p.CreatedAt, UpdatedAt |-> p.UpdatedAt] :
        id \in StoryIds, pid \in ProjectIds, m \in BOOLEAN, p \in StoryPayloads}

\* db.CommentRow
CommentRow ==
    {[ID |-> id, StoryID |-> sid, ProjectID |-> pid, Text |-> p.Text,
      MentionsMe |-> m, CreatedAt |-> p.CreatedAt] :
        id \in CommentIds, sid \in StoryIds, pid \in ProjectIds,
        m \in BOOLEAN, p \in CommentPayloads}

StoryRowsOf(table, id) == {r \in table : r.id = id}
CommentRowsOf(table, id) == {r \in table : r.id = id}

\* INSERT INTO stories ... VALUES (...): the row the statement proposes.
StoryExcluded(s) ==
    [id |-> s.ID, project_id |-> s.ProjectID, title |-> s.Title,
     is_mine |-> s.IsMine, mentions_me |-> s.MentionsMe,
     created_at |-> TryCastTimestamp(ParseApiDate(s.CreatedAt)),
     updated_at |-> TryCastTimestamp(ParseApiDate(s.UpdatedAt))]

\* A conflict update that takes mentions_me from the incoming row like any
\* other column (mentions_me = excluded.mentions_me).
StoryOnConflictPlainFlag(old, excluded) ==
    [id |-> old.id,
     project_id |-> old.project_id,
     title |-> excluded.title,
     is_mine |-> excluded.is_mine,
     mentions_me |-> excluded.mentions_me,
     created_at |-> excluded.created_at,
     updated_at |-> excluded.updated_at]

\* A conflict update that keeps is_mine once it is set, as it does mentions_me.
StoryOnConflictStickyMine(old, excluded) ==
    [id |-> old.id,
     project_id |-> old.project_id,
     title |-> excluded.title,
     is_mine |-> IF excluded.is_mine THEN TRUE ELSE old.is_mine,
     mentions_me |-> IF excluded.mentions_me THEN TRUE ELSE old.mentions_me,
     created_at |-> excluded.created_at,
     updated_at |-> excluded.updated_at]

\* ON CONFLICT(id) DO UPDATE SET ...: project_id is not in the SET list.
StoryOnConflict(old, excluded) ==
    [id |-> old.id,
     project_id |-> old.project_id,
     title |-> excluded.title,
     is_mine |-> excluded.is_mine,
     mentions_me |-> IF excluded.mentions_me THEN TRUE ELSE old.mentions_me,
     created_at |-> excluded.created_at,
     updated_at |-> excluded.updated_at]

\* The stories table after UpsertStory(s) ran without error.
UpsertStoryTable(table, s) ==
    IF StoryRowsOf(table, s.ID) = {}
    THEN table \cup {StoryExcluded(s)}
    ELSE {IF r.id = s.ID THEN StoryOnConflict(r, StoryExcluded(s)) ELSE r : r \in table}

CommentExcluded(c) ==
    [id |-> c.ID, story_id |-> c.StoryID, project_id |-> c.ProjectID,
     text |-> c.Text, mentions_me |-> c.MentionsMe,
     created_at |-> TryCastTimestamp(ParseApiDate(c.CreatedAt))]

\* ON CONFLICT(id) DO UPDATE SET text, person_id, person_name, mentions_me,
\* synced_at: story_id, project_id and created_at are not in the SET list.
CommentOnConflict(old, excluded) ==
    [id |-> old.id,
     story_id |-> old.story_id,
     project_id |-> old.project_id,
     text |-> excluded.text,
     mentions_me |-> IF excluded.mentions_me THEN TRUE ELSE old.mentions_me,
     created_at |-> old.created_at]

UpsertCommentTable(table, c) ==
    IF CommentRowsOf(table, c.ID) = {}
    THEN table \cup {CommentExcluded(c)}
    ELSE {IF r.id = c.ID THEN CommentOnConflict(r, CommentExcluded(c)) ELSE r : r \in table}

\* UPDATE stories SET mentions_me = true WHERE id = ?
MarkStoryTable(table, storyID) ==
    {IF r.id = storyID THEN [r EXCEPT !.mentions_me = TRUE] ELSE r : r \in table}

\* lastCall after a call whose statement returned an error: nothing was written.
FailedCall(op) == [op |-> op, row |-> 0, ok |-> FALSE, existed |-> FALSE]

\* UpsertStory(s); ok is whether conn.Exec returned no error.
UpsertStory(s, ok) ==
    /\ stories' = IF ok THEN UpsertStoryTable(stories, s) ELSE stories
    /\ lastCall' = IF ok THEN [op |-> "UpsertStory", row |-> s, ok |-> TRUE,
                                existed |-> StoryRowsOf(stories, s.ID) # {}]
                   ELSE FailedCall("UpsertStory")
    /\ UNCHANGED comments

UpsertComment(c, ok) ==
    /\ comments' = IF ok THEN UpsertCommentTable(comments, c) ELSE comments
    /\ lastCall' = IF ok THEN [op |-> "UpsertComment", row |-> c, ok |-> TRUE,
                                existed |-> CommentRowsOf(comments, c.ID) # {}]
                   ELSE FailedCall("UpsertComment")
    /\ UNCHANGED stories

MarkStoryMentionsMe(storyID, ok) ==
    /\ stories' = IF ok THEN MarkStoryTable(stories, storyID) ELSE stories
    /\ lastCall' = IF ok THEN [op |-> "MarkStoryMentionsMe", row |-> storyID, ok |-> TRUE,
                                existed |-> StoryRowsOf(stories, storyID) # {}]
                   ELSE FailedCall("MarkStoryMentionsMe")
    /\ UNCHANGED comments

NoCall == [op |-> "none", row |-> 0, ok |-> TRUE, existed |-> FALSE]

\* The store after InitializeDatabase on a fresh file.
StoreInit ==
    /\ stories = {}
    /\ comments = {}
    /\ lastCall = NoCall

StoreParked == StoreInit

\* The callers of the store, with every argument they can pass.
CallUpsertStory ==
    /\ \E s \in StoryRow, ok \in BOOLEAN : UpsertStory(s, ok)
    /\ UNCHANGED nonStoreVars

CallUpsertComment ==
    /\ \E c \in CommentRow, ok \in BOOLEAN : UpsertComment(c, ok)
    /\ UNCHANGED nonStoreVars

CallMarkStoryMentionsMe ==
    /\ \E id \in StoryIds, ok \in BOOLEAN : MarkStoryMentionsMe(id, ok)
    /\ UNCHANGED nonStoreVars

StoreNext ==
    \/ CallUpsertStory
    \/ CallUpsertComment
    \/ CallMarkStoryMentionsMe

----------------------------------------------------------------------------
(* The snapshot manager: CreateSnapshot (internal/db/db.go) *)

MaxDbVersion == 2
FileChunks == 2

DbVersions == 0..MaxDbVersion

\* A path of the file system: no file, or a file and its bytes (in chunks).
Absent == [exists |-> FALSE, bytes |-> <<>>]
File(bytes) == [exists |-> TRUE, bytes |-> bytes]

\* The bytes of the database file that holds version v.
DbBytes(v) == [i \in 1..FileChunks |-> v]

\* A file a reader can open as a database: every byte of one version.
Complete(f) == f.exists /\ \E v \in DbVersions : f.bytes = DbBytes(v)

\* snapCall: where CreateSnapshot stands, the bytes it read, what it
\* returned, the published file when it was entered, whether its latest
\* os.Remove removed the tmp path, and the steps it has taken.
SnapIdle(ret) ==
    [pc |-> "idle", data |-> <<>>, ret |-> ret, before |-> Absent, removed |-> TRUE,
     steps |-> <<>>]

\* The call takes the step called name.
SnapStep(call, name) == [call EXCEPT !.steps = Append(@, name)]

\* CreateSnapshot returns ret; the process goes on.
SnapReturn(call, ret) == snapCall' = [call EXCEPT !.pc = "idle", !.data = <<>>, !.ret = ret]

\* os.Remove(tmpPath); its error is not looked at.
RemoveTmp(removed) == tmpFile' = IF removed THEN Absent ELSE tmpFile

\* A sync pass wrote to the database between two snapshots.
DbWrite ==
    /\ snapCall.pc = "idle"
    /\ dbFile < MaxDbVersion
    /\ dbFile' = dbFile + 1
    /\ UNCHANGED <<snapFile, tmpFile, snapCall>>
    /\ UNCHANGED nonSnapVars

\* CreateSnapshot is entered: the stale tmp file is removed.
RemoveStaleTmp(removed) ==
    /\ snapCall.pc = "idle"
    /\ RemoveTmp(removed)
    /\ snapCall' = [pc |-> "checkpoint", data |-> <<>>, ret |-> "running",
                    before |-> snapFile, removed |-> removed, steps |-> <<"remove">>]
    /\ UNCHANGED <<dbFile, snapFile>>
    /\ UNCHANGED nonSnapVars

\* conn.Exec("CHECKPOINT")
Checkpoint(ok) ==
    /\ snapCall.pc = "checkpoint"
    /\ LET call == SnapStep(snapCall, "checkpoint")
       IN  IF ok THEN snapCall' = [call EXCEPT !.pc = "read"]
                 ELSE SnapReturn(call, "checkpoint")
    /\ UNCHANGED <<dbFile, snapFile, tmpFile>>
    /\ UNCHANGED nonSnapVars

\* os.ReadFile(dbPath())
ReadDb(ok) ==
    /\ snapCall.pc = "read"
    /\ LET call == SnapStep(snapCall, "read")
       IN  IF ok THEN snapCall' = [call EXCEPT !.pc = "open", !.data = DbBytes(dbFile)]
                 ELSE SnapReturn(call, "read db")
    /\ UNCHANGED <<dbFile, snapFile, tmpFile>>
    /\ UNCHANGED nonSnapVars

\* os.WriteFile(tmpPath, data, 0o600), first step: the file is created or
\* truncated. On an error tmpPath is removed and the error returned.
OpenTmp(ok, removed) ==
    /\ snapCall.pc = "open"
    /\ LET call == SnapStep(snapCall, "write")
       IN  IF ok THEN /\ tmpFile' = File(<<>>)
                      /\ snapCall' = [call EXCEPT !.pc = "write"]
                 ELSE /\ RemoveTmp(removed)
                      /\ SnapReturn([call EXCEPT !.removed = removed], "write tmp")
    /\ UNCHANGED <<dbFile, snapFile>>
    /\ UNCHANGED nonSnapVars

\* The same copy made in place: the bytes go to snapPath() itself.
WriteChunkInPlace(ok, removed) ==
    /\ snapCall.pc = "write"
    /\ IF ok THEN /\ snapFile' = File(Append(tmpFile.bytes, snapCall.data[Len(tmpFile.bytes) + 1]))
                  /\ tmpFile' = File(Append(tmpFile.bytes, snapCall.data[Len(tmpFile.bytes) + 1]))
                  /\ snapCall' = [snapCall EXCEPT !.pc =
                        IF Len(tmpFile.bytes) + 1 = Len(snapCall.data) THEN "rename" ELSE "write"]
             ELSE /\ RemoveTmp(removed)
                  /\ SnapReturn([snapCall EXCEPT !.removed = removed], "write tmp")
                  /\ UNCHANGED snapFile
    /\ UNCHANGED dbFile
    /\ UNCHANGED nonSnapVars

\* os.WriteFile, the following steps: the next chunk of data reaches tmpPath,
\* or the write fails, tmpPath is removed and the error returned.
WriteChunk(ok, removed) ==
    /\ snapCall.pc = "write"
    /\ IF ok THEN /\ tmpFile' = File(Append(tmpFile.bytes, snapCall.data[Len(tmpFile.bytes) + 1]))
                  /\ snapCall' = [snapCall EXCEPT !.pc =
                        IF Len(tmpFile.bytes) + 1 = Len(snapCall.data) THEN "rename" ELSE "write"]
             ELSE /\ RemoveTmp(removed)
                  /\ SnapReturn([snapCall EXCEPT !.removed = removed], "write tmp")
    /\ UNCHANGED <<dbFile, snapFile>>
    /\ UNCHANGED nonSnapVars

\* A rename whose failure path returns the error without removing tmpPath.
RenameNoCleanup(ok, removed) ==
    /\ snapCall.pc = "rename"
    /\ LET call == SnapStep(snapCall, "rename")
       IN  IF ok THEN /\ snapFile' = tmpFile
                      /\ tmpFile' = Absent
                      /\ SnapReturn(call, "ok")
                 ELSE /\ SnapReturn(call, "rename")
                      /\ UNCHANGED <<snapFile, tmpFile>>
    /\ UNCHANGED dbFile
    /\ UNCHANGED nonSnapVars

\* os.Rename(tmpPath, snapPath()): one step of the file system.
Rename(ok, removed) ==
    /\ snapCall.pc = "rename"
    /\ LET call == SnapStep(snapCall, "rename")
       IN  IF ok THEN /\ snapFile' = tmpFile
                      /\ tmpFile' = Absent
                      /\ SnapReturn(call, "ok")
                 ELSE /\ RemoveTmp(removed)
                      /\ SnapReturn([call EXCEPT !.removed = removed], "rename")
                      /\ UNCHANGED snapFile
    /\ UNCHANGED dbFile
    /\ UNCHANGED nonSnapVars

\* The process is stopped inside CreateSnapshot; the files stay as they are
\* and the next process starts over.
Interrupt ==
    /\ snapCall.pc # "idle"
    /\ snapCall' = SnapIdle("interrupted")
    /\ UNCHANGED <<dbFile, snapFile, tmpFile>>
    /\ UNCHANGED nonSnapVars

\* Before the first snapshot: no snapshot, and any tmp file an earlier
\* process left behind.
SnapInit ==
    /\ dbFile = 0
    /\ snapFile = Absent
    /\ tmpFile \in {Absent, File(<<>>), File(<<0>>)}
    /\ snapCall = SnapIdle("none")

SnapParked ==
    /\ dbFile = 0
    /\ snapFile = Absent
    /\ tmpFile = Absent
    /\ snapCall = SnapIdle("none")

SnapNext ==
    \/ DbWrite
    \/ \E removed \in BOOLEAN : RemoveStaleTmp(removed)
    \/ \E ok \in BOOLEAN : Checkpoint(ok)
    \/ \E ok \in BOOLEAN : ReadDb(ok)
    \/ \E ok \in BOOLEAN, removed \in BOOLEAN : OpenTmp(ok, removed)
    \/ \E ok \in BOOLEAN, removed \in BOOLEAN : WriteChunk(ok, removed)
    \/ \E ok \in BOOLEAN, removed \in BOOLEAN : Rename(ok, removed)
    \/ Interrupt

----------------------------------------------------------------------------
(* The poll/notify loop: runDaemon, loadPollState, savePollState, poll *)

MaxClock == 4
NumTracked == 3
TicksPerSecond == 2

\* config.C.ProjectIDs
Tracked == [i \in 1..NumTracked |-> i]

\* config.C.Username
Username == <<"B", "o", "b">>

\* Strings are sequences of characters. The fold of containsIgnoreCase:
\* 'A'..'Z' go to 'a'..'z', every other byte stays.
FoldByte(ch) ==
    CASE ch = "B" -> "b"
      [] ch = "O" -> "o"
      [] ch = "C" -> "c"
      [] OTHER -> ch

\* A match that finds an empty substr nowhere.
containsIgnoreCaseNoEmpty(s, substr) ==
    LET sl == Len(substr)
    IN  IF sl = 0 THEN FALSE
        ELSE IF Len(s) < sl THEN FALSE
        ELSE \E i \in 0..(Len(s) - sl) :
                \A j \in 0..(sl - 1) : FoldByte(s[i + j + 1]) = FoldByte(substr[j + 1])

containsIgnoreCase(s, substr) ==
    LET sl == Len(substr)
    IN  IF sl = 0 THEN TRUE
        ELSE IF Len(s) < sl THEN FALSE
        ELSE \E i \in 0..(Len(s) - sl) :
                \A j \in 0..(sl - 1) : FoldByte(s[i + j + 1]) = FoldByte(substr[j + 1])

\* time.Now().UTC().Format(time.RFC3339): the second the tick falls in.
FormatRFC3339(t) == t \div TicksPerSecond

\* json.Marshal of a change's NewValues: the object around its text.
MarshalNewValues(v) == <<"{">> \o v \o <<"}">>

\* api.Activity: Changes is the list of the changes' NewValues, NULL for nil.
Activity(kind, message, changes, resources, performer) ==
    [Kind |-> kind, Message |-> message, Changes |-> changes,
     PrimaryResources |-> resources, PerformedBy |-> performer]

Activities ==
    {Activity("comment_create_activity", <<"h", "i">>, <<>>, <<"S1">>, "Ann"),
     Activity("story_update_activity", <<"c", "c", " ", "B", "O", "B">>, <<>>, <<"S2", "S3">>, ""),
     Activity("story_update_activity", <<>>, <<NULL, <<"b", "o", "b">>>>, <<>>, "Ann"),
     Activity("story_update_activity", <<"o", "b", "É">>, <<<<"b", "o">>>>, <<"S1">>, "Ann"),
     Activity("comment_create_activity", <<"B", "o", "b">>, <<<<"b", "o", "b">>>>, <<"S2">>, "Cy"),
     Activity("story_update_activity", <<>>, <<NULL>>, <<"S3">>, "Cy")}

\* A relevance predicate that looks at the message only.
MentionsMeMessageOnly(activity) ==
    activity.Message # <<>> /\ containsIgnoreCase(activity.Message, CUsername)

\* The relevance predicate of poll.
MentionsMe(activity) ==
    \/ activity.Message # <<>> /\ containsIgnoreCase(activity.Message, CUsername)
    \/ \E k \in DOMAIN activity.Changes :
          /\ activity.Changes[k] # NULL
          /\ containsIgnoreCase(MarshalNewValues(activity.Changes[k]), CUsername)

Notifiable(activity) ==
    MentionsMe(activity) \/ activity.Kind = "comment_create_activity"

\* A notification titled after the last primary resource.
NotificationLastResource(activity) ==
    [title |-> IF Len(activity.PrimaryResources) > 0
               THEN <<"[", activity.PrimaryResources[Len(activity.PrimaryResources)], "]">>
               ELSE <<"LiteTracker">>,
     body |-> <<IF activity.PerformedBy # "" THEN activity.PerformedBy ELSE "Someone",
                ": ", activity.Message>>]

\* The notify.Send call poll makes for a notifiable activity.
Notification(activity) ==
    [title |-> IF Len(activity.PrimaryResources) > 0
               THEN <<"[", activity.PrimaryResources[1], "]">>
               ELSE <<"LiteTracker">>,
     body |-> <<IF activity.PerformedBy # "" THEN activity.PerformedBy ELSE "Someone",
                ": ", activity.Message>>]

\* A loop that notifies once for a mention and once more for a comment.
RECURSIVE NotificationsPerCondition(_)
NotificationsPerCondition(activities) ==
    IF activities = <<>> THEN <<>>
    ELSE (IF MentionsMe(Head(activities)) THEN <<Notification(Head(activities))>> ELSE <<>>)
         \o (IF Head(activities).Kind = "comment_create_activity"
             THEN <<Notification(Head(activities))>> ELSE <<>>)
         \o NotificationsPerCondition(Tail(activities))

\* The loop of poll over the activities of one project.
RECURSIVE NotificationsOf(_)
NotificationsOf(activities) ==
    IF activities = <<>> THEN <<>>
    ELSE (IF Notifiable(Head(activities)) THEN <<Notification(Head(activities))>> ELSE <<>>)
         \o NotificationsOf(Tail(activities))

\* The poll-state file.
NoFile == [kind |-> "absent", lastPoll |-> 0]
CorruptFile == [kind |-> "corrupt", lastPoll |-> 0]
JsonFile(lastPoll) == [kind |-> "json", lastPoll |-> lastPoll]

pollState(lastPoll) == [LastPoll |-> lastPoll]

\* A loadPollState that starts every process at the current time.
loadPollStateNow(file, t) == pollState(FormatRFC3339(t))

\* A loadPollState that returns the zero cursor when it cannot read the file.
loadPollStateZero(file, t) ==
    IF file.kind = "json" THEN pollState(file.lastPoll)
    ELSE pollState(0)

loadPollState(file, t) ==
    IF file.kind = "json" THEN pollState(file.lastPoll)
    ELSE pollState(FormatRFC3339(t))

\* savePollState: os.WriteFile wrote the file, failed before touching it, or
\* failed after truncating it; the error is discarded.
WriteOutcomes == {"written", "failed", "torn"}

savePollState(s, outcome) ==
    CASE outcome = "written" -> JsonFile(s.LastPoll)
      [] outcome = "failed" -> stateFile
      [] outcome = "torn" -> CorruptFile

\* A poll that moves the cursor only when every project was fetched.
NextLastPollOnSuccess(since, now, anyFailed) == IF anyFailed THEN since ELSE now

\* A poll that goes back to the start of time when a project failed, to fetch
\* its window again.
NextLastPollResetOnFailure(since, now, anyFailed) == IF anyFailed THEN 0 ELSE now

\* state.LastPoll = now, after the loop over the projects.
NextLastPoll(since, now, anyFailed) == now

PollIdle == [pc |-> "idle", since |-> 0, now |-> 0, idx |-> 1]
NoCycle == [since |-> 0, now |-> 0, failedPids |-> {}, saved |-> FALSE, restarted |-> FALSE]

Tick ==
    /\ clock < MaxClock
    /\ clock' = clock + 1
    /\ UNCHANGED <<state, stateFile, pollCall, fetches, sent, lastCycle, CUsername, loaded>>
    /\ UNCHANGED nonPollVars

\* poll is entered: since and now are taken.
PollStart ==
    /\ pollCall.pc = "idle"
    /\ pollCall' = [pc |-> "fetch", since |-> state.LastPoll,
                    now |-> FormatRFC3339(clock), idx |-> 1]
    /\ fetches' = <<>>
    /\ sent' = <<>>
    /\ UNCHANGED <<clock, state, stateFile, lastCycle, CUsername, loaded>>
    /\ UNCHANGED nonPollVars

\* A loop over the projects that returns on the first error.
RecvActivityAbortOnError(ok, activities) ==
    /\ pollCall.pc = "fetch"
    /\ fetches' = Append(fetches, [pid |-> Tracked[pollCall.idx], since |-> pollCall.since,
                                    ok |-> ok,
                                    activities |-> IF ok THEN activities ELSE <<>>])
    /\ sent' = IF ok THEN sent \o NotificationsOf(activities) ELSE sent
    /\ pollCall' = IF pollCall.idx = NumTracked \/ ~ok
                   THEN [pollCall EXCEPT !.pc = "save"]
                   ELSE [pollCall EXCEPT !.idx = pollCall.idx + 1]
    /\ UNCHANGED <<clock, state, stateFile, lastCycle, CUsername, loaded>>
    /\ UNCHANGED nonPollVars

\* api.GetProjectActivity(pid, since) returned for the next project: an error
\* (the project is skipped) or activities, each notified if relevant.
RecvActivity(ok, activities) ==
    /\ pollCall.pc = "fetch"
    /\ fetches' = Append(fetches, [pid |-> Tracked[pollCall.idx], since |-> pollCall.since,
                                    ok |-> ok,
                                    activities |-> IF ok THEN activities ELSE <<>>])
    /\ sent' = IF ok THEN sent \o NotificationsOf(activities) ELSE sent
    /\ pollCall' = IF pollCall.idx = NumTracked
                   THEN [pollCall EXCEPT !.pc = "save"]
                   ELSE [pollCall EXCEPT !.idx = pollCall.idx + 1]
    /\ UNCHANGED <<clock, state, stateFile, lastCycle, CUsername, loaded>>
    /\ UNCHANGED nonPollVars

\* An end of poll that takes the time again: the cursor is the cycle's end.
PollSaveEndTime(outcome) ==
    /\ pollCall.pc = "save"
    /\ LET failedPids == {fetches[i].pid : i \in {k \in DOMAIN fetches : ~fetches[k].ok}}
           next == pollState(FormatRFC3339(clock))
       IN  /\ state' = next
           /\ stateFile' = savePollState(next, outcome)
           /\ lastCycle' = [since |-> pollCall.since, now |-> pollCall.now,
                            failedPids |-> failedPids, saved |-> outcome = "written",
                            restarted |-> FALSE]
    /\ pollCall' = PollIdle
    /\ UNCHANGED <<clock, fetches, sent, CUsername, loaded>>
    /\ UNCHANGED nonPollVars

\* The end of poll: state.LastPoll = now; savePollState of the state.
PollSave(outcome) ==
    /\ pollCall.pc = "save"
    /\ LET failedPids == {fetches[i].pid : i \in {k \in DOMAIN fetches : ~fetches[k].ok}}
           next == pollState(NextLastPoll(pollCall.since, pollCall.now, failedPids # {}))
       IN  /\ state' = next
           /\ stateFile' = savePollState(next, outcome)
           /\ lastCycle' = [since |-> pollCall.since, now |-> pollCall.now,
                            failedPids |-> failedPids, saved |-> outcome = "written",
                            restarted |-> FALSE]
    /\ pollCall' = PollIdle
    /\ UNCHANGED <<clock, fetches, sent, CUsername, loaded>>
    /\ UNCHANGED nonPollVars

\* What a loadPollState did: the clock then, and whether it read a state.
Loaded(file, t) == [at |-> t, read |-> file.kind = "json"]

\* The daemon is stopped and started again: runDaemon loads the state.
Restart ==
    /\ state' = loadPollState(stateFile, clock)
    /\ pollCall' = PollIdle
    /\ fetches' = <<>>
    /\ sent' = <<>>
    /\ lastCycle' = [lastCycle EXCEPT !.restarted = TRUE]
    /\ loaded' = Loaded(stateFile, clock)
    /\ UNCHANGED <<clock, stateFile, CUsername>>
    /\ UNCHANGED nonPollVars

\* The responses of GetProjectActivity: no activity, one, or two.
ActivityLists ==
    {<<>>} \cup {<<a>> : a \in Activities}
    \cup {<<a, b>> : a \in {x \in Activities : x.PerformedBy = "Cy"},
                     b \in {x \in Activities : x.PerformedBy = ""}}

ShortActivityLists == {l \in ActivityLists : \A i \in DOMAIN l : l[i].PerformedBy = "Cy"}

\* runDaemon after loadPollState, on any poll-state file.
PollInit ==
    /\ clock = 0
    /\ stateFile \in {NoFile, CorruptFile, JsonFile(0)}
    /\ state = loadPollState(stateFile, clock)
    /\ pollCall = PollIdle
    /\ fetches = <<>>
    /\ sent = <<>>
    /\ lastCycle = NoCycle
    /\ CUsername = Username
    /\ loaded = Loaded(stateFile, clock)

\* LITETRACKER_USERNAME: a name, unset, or a name outside ASCII.
Usernames == {Username, <<>>, <<"é">>}

\* The daemon with any setting of LITETRACKER_USERNAME, none included, on a
\* fresh data directory.
NotifyInit ==
    /\ clock = 0
    /\ stateFile = NoFile
    /\ state = loadPollState(stateFile, clock)
    /\ pollCall = PollIdle
    /\ fetches = <<>>
    /\ sent = <<>>
    /\ lastCycle = NoCycle
    /\ CUsername \in Usernames
    /\ loaded = Loaded(stateFile, clock)

PollParked ==
    /\ clock = 0
    /\ stateFile = NoFile
    /\ state = pollState(0)
    /\ pollCall = PollIdle
    /\ fetches = <<>>
    /\ sent = <<>>
    /\ lastCycle = NoCycle
    /\ CUsername = Username
    /\ loaded = Loaded(stateFile, clock)

\* The daemon over time and restarts, on short responses.
PollNext ==
    \/ Tick
    \/ PollStart
    \/ \E activities \in ShortActivityLists : RecvActivity(TRUE, activities)
    \/ RecvActivity(FALSE, <<>>)
    \/ \E outcome \in WriteOutcomes : PollSave(outcome)
    \/ Restart

\* The poll cycles of one run of the daemon, on every response.
NotifyNext ==
    \/ PollStart
    \/ \E activities \in ActivityLists : RecvActivity(TRUE, activities)
    \/ RecvActivity(FALSE, <<>>)
    \/ \E outcome \in WriteOutcomes : PollSave(outcome)

----------------------------------------------------------------------------
(* The sync engine: syncProject (internal/sync) on the store *)

MaxPasses == 2
MaxFetched == 2
NumStates == 5

\* config.C.UserID and another user of the remote service
ConfigUserID == 1
OtherUserID == ConfigUserID + 1

\* states of syncProject: started, unstarted, delivered, accepted, rejected
StateIdx == 1..NumStates

\* api.Story as the remote service returns it: Owners is the list of the
\* owners' UserID.
ApiStory(id, title, owners, createdAt, updatedAt) ==
    [ID |-> id, Title |-> title, Owners |-> owners,
     CreatedAt |-> createdAt, UpdatedAt |-> updatedAt]

ApiStories ==
    {ApiStory(id, "t1", <<>>, GoodDate, GoodDate) : id \in StoryIds}
    \cup {ApiStory(id, "t2", <<OtherUserID, ConfigUserID>>, EmptyDate, GarbageDate) :
            id \in StoryIds}

\* One response of ListStories: no story twice.
StoryLists ==
    {<<>>} \cup {<<s>> : s \in ApiStories}
    \cup {<<p[1], p[2]>> : p \in {q \in ApiStories \X ApiStories : q[1].ID # q[2].ID}}

\* The remote service keeps a comment under one story.
HomeStory(commentID) == ((commentID - 1) % MaxStoryId) + 1

CommentTexts == {<<"c", "c", " ", "@", "B", "O", "B">>, <<"o", "k">>, <<>>}

\* api.Comment
ApiComments ==
    {[ID |-> id, Text |-> t, CreatedAt |-> GoodDate] : id \in CommentIds, t \in CommentTexts}

\* One response of GetStoryComments(projectID, storyID).
CommentLists(storyID) ==
    {<<>>} \cup {<<c>> : c \in {x \in ApiComments : HomeStory(x.ID) = storyID}}

AllCommentLists == UNION {CommentLists(id) : id \in StoryIds}

\* strings.ToLower and strings.Contains on the model's strings.
LowerRune(ch) == IF ch = "É" THEN "é" ELSE FoldByte(ch)

ToLower(s) == [i \in DOMAIN s |-> LowerRune(s[i])]

Contains(s, substr) ==
    \E i \in 0..(Len(s) - Len(substr)) :
        \A j \in 1..Len(substr) : s[i + j] = substr[j]

mentionsUser(text) ==
    IF text = <<>> THEN FALSE
    ELSE LET lower == ToLower(text)
             username == ToLower(CUsername)
         IN  Contains(lower, username) \/ Contains(lower, <<"@">> \o username)

\* An ownership test that looks at the first owner only.
isMyStoryFirstOwner(story) ==
    Len(story.Owners) > 0 /\ story.Owners[1] = ConfigUserID

isMyStory(story) ==
    \E k \in DOMAIN story.Owners : story.Owners[k] = ConfigUserID

\* fetchAllStories: the stories of the response, none on an error.
fetchAllStories(ok, list) == IF ok THEN list ELSE <<>>

\* A db.StoryRow that carries the mention flag with the ownership.
SyncStoryRowFlagged(s, projectID, isMine) ==
    [ID |-> s.ID, ProjectID |-> projectID, Title |-> s.Title, IsMine |-> isMine,
     MentionsMe |-> isMine, CreatedAt |-> s.CreatedAt, UpdatedAt |-> s.UpdatedAt]

\* The db.StoryRow syncProject builds for story s.
SyncStoryRow(s, projectID, isMine) ==
    [ID |-> s.ID, ProjectID |-> projectID, Title |-> s.Title, IsMine |-> isMine,
     MentionsMe |-> FALSE, CreatedAt |-> s.CreatedAt, UpdatedAt |-> s.UpdatedAt]

\* The db.CommentRow syncProject builds for comment c of story s.
SyncCommentRow(c, s, projectID) ==
    [ID |-> c.ID, StoryID |-> s.ID, ProjectID |-> projectID,
     Text |-> IF c.Text # <<>> THEN c.Text ELSE NULL,
     MentionsMe |-> mentionsUser(c.Text), CreatedAt |-> c.CreatedAt]

\* The calls a pass has made: the number of ListStories calls, the places in
\* allStories UpsertStory and GetStoryComments were called for, the places
\* whose UpsertStory returned no error, whether every GetStoryComments
\* succeeded, the number of comments returned and the number of UpsertComment
\* calls.
NoCalls ==
    [ListStories |-> 0, UpsertStory |-> {}, stored |-> {}, GetStoryComments |-> {},
     commentsOk |-> TRUE, returned |-> 0, UpsertComment |-> 0]

SyncIdle ==
    [pc |-> "idle", projectID |-> 0, idx |-> 1, allStories |-> <<>>, myStoryIDs |-> {},
     pending |-> <<>>, Stories |-> 0, Mine |-> 0, Comments |-> 0,
     fetchOk |-> TRUE, upsertOk |-> TRUE, calls |-> NoCalls, mineBefore |-> {}]

\* A pass that starts by deleting the stored stories of the project.
SyncProjectFullRefresh(projectID) ==
    /\ syncCall.pc \in {"idle", "done"}
    /\ passes < MaxPasses
    /\ passes' = passes + 1
    /\ syncCall' = [SyncIdle EXCEPT !.pc = "fetch", !.projectID = projectID]
    /\ stories' = {r \in stories : r.project_id # projectID}
    /\ UNCHANGED <<comments, lastCall>>
    /\ UNCHANGED nonSyncVars

\* syncProject(projectID) is entered; mineBefore holds the ids stored with
\* is_mine = true at that moment.
SyncProject(projectID) ==
    /\ syncCall.pc \in {"idle", "done"}
    /\ passes < MaxPasses
    /\ passes' = passes + 1
    /\ syncCall' = [SyncIdle EXCEPT !.pc = "fetch", !.projectID = projectID,
                                    !.mineBefore = {r.id : r \in {x \in stories : x.is_mine}}]
    /\ UNCHANGED storeVars
    /\ UNCHANGED nonSyncVars

\* The first loop: fetchAllStories(projectID, state) for the next state. After
\* the last state myStoryIDs is filled from allStories.
FetchStories(ok, list) ==
    /\ syncCall.pc = "fetch"
    /\ Len(syncCall.allStories) + Len(fetchAllStories(ok, list)) <= MaxFetched
    /\ LET all == syncCall.allStories \o fetchAllStories(ok, list)
           last == syncCall.idx = NumStates
       IN  syncCall' = [syncCall EXCEPT
                !.allStories = all,
                !.calls.ListStories = @ + 1,
                !.fetchOk = syncCall.fetchOk /\ ok,
                !.idx = IF last THEN 1 ELSE syncCall.idx + 1,
                !.myStoryIDs = IF last
                               THEN {all[i].ID : i \in {k \in DOMAIN all : isMyStory(all[k])}}
                               ELSE {},
                !.pc = IF ~last THEN "fetch" ELSE IF all = <<>> THEN "done" ELSE "upsert"]
    /\ UNCHANGED <<storeVars, passes>>
    /\ UNCHANGED nonSyncVars

\* A second loop that returns on the first error of db.UpsertStory.
UpsertOneAbortOnError(ok) ==
    /\ syncCall.pc = "upsert"
    /\ LET s == syncCall.allStories[syncCall.idx]
           last == syncCall.idx = Len(syncCall.allStories)
       IN  /\ UpsertStory(SyncStoryRow(s, syncCall.projectID, s.ID \in syncCall.myStoryIDs), ok)
           /\ syncCall' = [syncCall EXCEPT
                !.calls.UpsertStory = @ \cup {syncCall.idx},
                !.Stories = IF ok THEN syncCall.Stories + 1 ELSE syncCall.Stories,
                !.upsertOk = syncCall.upsertOk /\ ok,
                !.Mine = IF last \/ ~ok THEN Cardinality(syncCall.myStoryIDs) ELSE 0,
                !.idx = IF last THEN 1 ELSE syncCall.idx + 1,
                !.pc = IF ~ok THEN "done" ELSE IF last THEN "comments" ELSE "upsert"]
    /\ UNCHANGED passes
    /\ UNCHANGED nonSyncVars

\* A second loop whose stats.Stories counts the calls of db.UpsertStory.
UpsertOneCountCalls(ok) ==
    /\ syncCall.pc = "upsert"
    /\ LET s == syncCall.allStories[syncCall.idx]
           last == syncCall.idx = Len(syncCall.allStories)
       IN  /\ UpsertStory(SyncStoryRow(s, syncCall.projectID, s.ID \in syncCall.myStoryIDs), ok)
           /\ syncCall' = [syncCall EXCEPT
                !.calls.UpsertStory = @ \cup {syncCall.idx},
                !.calls.stored = IF ok THEN @ \cup {syncCall.idx} ELSE @,
                !.Stories = syncCall.Stories + 1,
                !.upsertOk = syncCall.upsertOk /\ ok,
                !.Mine = IF last THEN Cardinality(syncCall.myStoryIDs) ELSE 0,
                !.idx = IF last THEN 1 ELSE syncCall.idx + 1,
                !.pc = IF last THEN "comments" ELSE "upsert"]
    /\ UNCHANGED passes
    /\ UNCHANGED nonSyncVars

\* The second loop: db.UpsertStory of the next story; stats.Stories counts the
\* calls that returned no error. After the loop stats.Mine = len(myStoryIDs).
UpsertOne(ok) ==
    /\ syncCall.pc = "upsert"
    /\ LET s == syncCall.allStories[syncCall.idx]
           last == syncCall.idx = Len(syncCall.allStories)
       IN  /\ UpsertStory(SyncStoryRow(s, syncCall.projectID, s.ID \in syncCall.myStoryIDs), ok)
           /\ syncCall' = [syncCall EXCEPT
                !.calls.UpsertStory = @ \cup {syncCall.idx},
                !.calls.stored = IF ok THEN @ \cup {syncCall.idx} ELSE @,
                !.Stories = IF ok THEN syncCall.Stories + 1 ELSE syncCall.Stories,
                !.upsertOk = syncCall.upsertOk /\ ok,
                !.Mine = IF last THEN Cardinality(syncCall.myStoryIDs) ELSE 0,
                !.idx = IF last THEN 1 ELSE syncCall.idx + 1,
                !.pc = IF last THEN "comments" ELSE "upsert"]
    /\ UNCHANGED passes
    /\ UNCHANGED nonSyncVars

\* Where the third loop goes on after story idx is finished.
NextStory(call) ==
    IF call.idx = Len(call.allStories)
    THEN [call EXCEPT !.pc = "done", !.pending = <<>>]
    ELSE [call EXCEPT !.pc = "comments", !.idx = call.idx + 1, !.pending = <<>>]

\* Where the third loop goes on after a comment of story idx is finished.
NextComment(call) ==
    IF Len(call.pending) > 1
    THEN [call EXCEPT !.pc = "upsertComment", !.pending = Tail(call.pending)]
    ELSE NextStory(call)

\* The third loop: api.GetStoryComments for the next story; on an error the
\* story is skipped.
FetchComments(ok, list) ==
    /\ syncCall.pc = "comments"
    /\ ok => list \in CommentLists(syncCall.allStories[syncCall.idx].ID)
    /\ LET call == [syncCall EXCEPT
                        !.calls.GetStoryComments = @ \cup {syncCall.idx},
                        !.calls.commentsOk = @ /\ ok,
                        !.calls.returned = @ + (IF ok THEN Len(list) ELSE 0)]
       IN  syncCall' = IF ok /\ list # <<>>
                       THEN [call EXCEPT !.pc = "upsertComment", !.pending = list]
                       ELSE NextStory(call)
    /\ UNCHANGED <<storeVars, passes>>
    /\ UNCHANGED nonSyncVars

\* db.UpsertComment of the next comment; on an error the comment is skipped.
UpsertOneComment(ok) ==
    /\ syncCall.pc = "upsertComment"
    /\ LET s == syncCall.allStories[syncCall.idx]
           c == Head(syncCall.pending)
           call == [syncCall EXCEPT !.calls.UpsertComment = @ + 1]
       IN  /\ UpsertComment(SyncCommentRow(c, s, syncCall.projectID), ok)
           /\ syncCall' =
                IF ~ok THEN NextComment(call)
                ELSE IF mentionsUser(c.Text)
                THEN [call EXCEPT !.pc = "mark", !.Comments = syncCall.Comments + 1]
                ELSE NextComment([call EXCEPT !.Comments = syncCall.Comments + 1])
    /\ UNCHANGED passes
    /\ UNCHANGED nonSyncVars

\* _ = db.MarkStoryMentionsMe(s.ID): the error is discarded.
MarkOne(ok) ==
    /\ syncCall.pc = "mark"
    /\ MarkStoryMentionsMe(syncCall.allStories[syncCall.idx].ID, ok)
    /\ syncCall' = NextComment(syncCall)
    /\ UNCHANGED passes
    /\ UNCHANGED nonSyncVars

SyncInit ==
    /\ syncCall = SyncIdle
    /\ passes = 0

SyncParked == SyncInit

SyncNext ==
    \/ \E projectID \in ProjectIds : SyncProject(projectID)
    \/ \E list \in StoryLists : FetchStories(TRUE, list)
    \/ FetchStories(FALSE, <<>>)
    \/ \E ok \in BOOLEAN : UpsertOne(ok)
    \/ \E list \in AllCommentLists : FetchComments(TRUE, list)
    \/ FetchComments(FALSE, <<>>)
    \/ \E ok \in BOOLEAN : UpsertOneComment(ok)
    \/ \E ok \in BOOLEAN : MarkOne(ok)

----------------------------------------------------------------------------
(* Startup of the store (InitializeDatabase, internal/db/db.go).  Every      *)
(* statement sent to the database is one step that succeeds or returns an  *)
(* error.  initCall.found holds what the database file held when the call  *)
(* began.                                                                   *)

schemaVersion == 2

MaxStoredVersion == 3

DataTables == {"stories", "comments"}

\* The schema_version table: absent, or the versions its rows hold.
NoSchemaTable == [exists |-> FALSE, rows |-> <<>>]
SchemaRows(rows) == [exists |-> TRUE, rows |-> rows]

\* The version the file stores: that of the first row, 0 when there is none.
StoredVersion(t) == IF t.exists /\ t.rows # <<>> THEN t.rows[1] ELSE 0

\* getSchemaVersion: the first row's version; 0 when QueryRow(...).Scan
\* returns an error: the table is missing, it holds no row, or the query failed.
getSchemaVersion(queryOk) ==
    IF ~schemaTable.exists \/ schemaTable.rows = <<>> \/ ~queryOk
    THEN 0
    ELSE schemaTable.rows[1]

\* migrateSchema's test: currentVersion >= schemaVersion returns nil.
migrateNeeded(currentVersion) == ~(currentVersion >= schemaVersion)

SeedStory ==
    StoryExcluded([ID |-> 1, ProjectID |-> 1, Title |-> "t1", IsMine |-> TRUE,
                   MentionsMe |-> FALSE, CreatedAt |-> GoodDate,
                   UpdatedAt |-> GoodDate])

SeedComment ==
    CommentExcluded([ID |-> 1, StoryID |-> 1, ProjectID |-> 1, Text |-> <<"c", "1">>,
                     MentionsMe |-> FALSE, CreatedAt |-> GoodDate])

\* What a database file can hold when the process starts: nothing, or what
\* an earlier run of this or another release left.
SchemaTables ==
    {NoSchemaTable, SchemaRows(<<>>)} \cup {SchemaRows(<<v>>) : v \in 1..MaxStoredVersion}

Found == [version |-> StoredVersion(schemaTable), stories |-> stories,
          comments |-> comments]

InitStart(found) == [pc |-> "open", idx |-> 0, ret |-> "none", found |-> found]

\* InitializeDatabase returns ret.
InitReturn(ret) == [initCall EXCEPT !.pc = "done", !.idx = 0, !.ret = ret]

\* conn, err = sql.Open("duckdb", dbPath())
Open(ok) ==
    /\ initCall.pc = "open"
    /\ conn' = IF ok THEN "open" ELSE conn
    /\ initCall' = IF ok THEN [initCall EXCEPT !.pc = "version"]
                   ELSE InitReturn("open duckdb")
    /\ UNCHANGED <<schemaTable, tables, storeVars>>
    /\ UNCHANGED nonBootVars

\* migrateSchema up to its test of the version it read.
ReadVersion(queryOk) ==
    /\ initCall.pc = "version"
    /\ initCall' =
          IF migrateNeeded(getSchemaVersion(queryOk))
          THEN [initCall EXCEPT !.pc = "migrate", !.idx = 1]
          ELSE [initCall EXCEPT !.pc = "create", !.idx = 1]
    /\ UNCHANGED <<conn, schemaTable, tables, storeVars>>
    /\ UNCHANGED nonBootVars

\* The four statements of migrateSchema's loop: DROP TABLE IF EXISTS comments,
\* stories, schema_version; CREATE TABLE schema_version.
MigrateStmt(ok) ==
    /\ initCall.pc = "migrate"
    /\ IF ~ok
       THEN /\ initCall' = InitReturn("migrate schema")
            /\ UNCHANGED <<schemaTable, tables, stories, comments>>
       ELSE /\ initCall' = IF initCall.idx < 4
                           THEN [initCall EXCEPT !.idx = @ + 1]
                           ELSE [initCall EXCEPT !.pc = "insert", !.idx = 0]
            /\ comments' = IF initCall.idx = 1 THEN {} ELSE comments
            /\ stories' = IF initCall.idx = 2 THEN {} ELSE stories
            /\ tables' = CASE initCall.idx = 1 -> tables \ {"comments"}
                           [] initCall.idx = 2 -> tables \ {"stories"}
                           [] OTHER -> tables
            /\ schemaTable' = CASE initCall.idx = 3 -> NoSchemaTable
                                [] initCall.idx = 4 -> SchemaRows(<<>>)
                                [] OTHER -> schemaTable
    /\ UNCHANGED <<conn, lastCall>>
    /\ UNCHANGED nonBootVars

\* INSERT INTO schema_version VALUES (schemaVersion)
InsertVersion(ok) ==
    /\ initCall.pc = "insert"
    /\ IF ok
       THEN /\ schemaTable' = SchemaRows(Append(schemaTable.rows, schemaVersion))
            /\ initCall' = [initCall EXCEPT !.pc = "create", !.idx = 1]
       ELSE /\ initCall' = InitReturn("migrate schema")
            /\ UNCHANGED schemaTable
    /\ UNCHANGED <<conn, tables, storeVars>>
    /\ UNCHANGED nonBootVars

\* createTables: CREATE TABLE IF NOT EXISTS stories, then comments.
CreateTable(ok) ==
    /\ initCall.pc = "create"
    /\ IF ok
       THEN /\ tables' = tables \cup {IF initCall.idx = 1 THEN "stories" ELSE "comments"}
            /\ initCall' = IF initCall.idx < 2
                           THEN [initCall EXCEPT !.idx = @ + 1]
                           ELSE [initCall EXCEPT !.pc = "indexes", !.idx = 0]
       ELSE /\ initCall' = InitReturn("create tables")
            /\ UNCHANGED tables
    /\ UNCHANGED <<conn, schemaTable, storeVars>>
    /\ UNCHANGED nonBootVars

\* createIndexes and createViews, which leave the rows alone.
CreateIndexesAndViews(ok) ==
    /\ initCall.pc = "indexes"
    /\ initCall' = InitReturn(IF ok THEN "nil" ELSE "create indexes")
    /\ UNCHANGED <<conn, schemaTable, tables, storeVars>>
    /\ UNCHANGED nonBootVars

\* The process ends after InitializeDatabase returned and is started again.
Reboot ==
    /\ initCall.pc = "done"
    /\ conn' = "unopened"
    /\ initCall' = InitStart(Found)
    /\ UNCHANGED <<schemaTable, tables, storeVars>>
    /\ UNCHANGED nonBootVars

BootInit ==
    /\ conn = "unopened"
    /\ schemaTable \in SchemaTables
    /\ tables \in {{}, DataTables}
    /\ stories \in (IF tables = {} THEN {{}} ELSE {{}, {SeedStory}})
    /\ comments \in (IF tables = {} THEN {{}} ELSE {{}, {SeedComment}})
    /\ lastCall = NoCall
    /\ initCall = InitStart(Found)

\* A process whose InitializeDatabase returned nil on a fresh database file.
BootParked ==
    /\ conn = "open"
    /\ schemaTable = SchemaRows(<<schemaVersion>>)
    /\ tables = DataTables
    /\ initCall = [pc |-> "done", idx |-> 0, ret |-> "nil",
                   found |-> [version |-> 0, stories |-> {}, comments |-> {}]]

BootNext ==
    \/ \E ok \in BOOLEAN : Open(ok)
    \/ \E queryOk \in BOOLEAN : ReadVersion(queryOk)
    \/ \E ok \in BOOLEAN : MigrateStmt(ok)
    \/ \E ok \in BOOLEAN : InsertVersion(ok)
    \/ \E ok \in BOOLEAN : CreateTable(ok)
    \/ \E ok \in BOOLEAN : CreateIndexesAndViews(ok)
    \/ Reboot

----------------------------------------------------------------------------
(* The daemon (runDaemon, main.go) from its initial poll on.  poll and      *)
(* SyncAllProjects run to completion at startup and inside the tick case;   *)
(* a signal that arrives meanwhile waits in sigCh once signal.Notify has     *)
(* run, and ends the process before that.  started records every operation *)
(* the daemon started together with the state of conn at that moment;       *)
(* daemon.running holds the calls of poll and SyncAllProjects that have not *)
(* returned, daemon.cycle those that returned since the select was left.    *)
(* daemon.pass lists what the current call of SyncAllProjects has done so   *)
(* far: one entry per project whose syncProject returned, with ok telling   *)
(* whether its fetches succeeded, and one per call of db.CreateSnapshot,    *)
(* with ok its result; daemon.log is the snapshot message that call of      *)
(* SyncAllProjects logged.                                                  *)

MaxSignals == 2

Ops4 == {"poll", "sync", "upsert", "snapshot"}

At(pc, idx) == [daemon EXCEPT !.pc = pc, !.idx = idx]

Synced(idx, ok) == [ev |-> "project", idx |-> idx, ok |-> ok]

Snapshot(ok) == [ev |-> "snapshot", idx |-> 0, ok |-> ok]

SnapshotLog(ok) == IF ok THEN "snapshot created" ELSE "snapshot creation failed"

Start(op) == started \cup {[op |-> op, conn |-> conn]}

\* The runtime delivers a tick: ticker.C holds one tick, further ones are dropped.
TickerFires ==
    /\ daemon.pc \notin {"exited", "killed"}
    /\ daemon.phase = "loop"
    /\ tickerC = 0
    /\ tickerC' = 1
    /\ UNCHANGED <<conn, daemon, sigCh, signals, started>>
    /\ UNCHANGED nonDaemonVars

\* SIGINT or SIGTERM is delivered: before signal.Notify the runtime ends the
\* process; after it the channel holds one signal.
Signal ==
    /\ daemon.pc \notin {"exited", "killed"}
    /\ signals < MaxSignals
    /\ signals' = signals + 1
    /\ IF daemon.phase = "initial"
       THEN /\ daemon' = [daemon EXCEPT !.pc = "killed", !.idx = 0]
            /\ UNCHANGED sigCh
       ELSE /\ sigCh' = 1
            /\ UNCHANGED daemon
    /\ UNCHANGED <<conn, tickerC, started>>
    /\ UNCHANGED nonDaemonVars

\* A tick case that runs poll in a goroutine of its own, sync under way or not.
TickCaseConcurrent ==
    /\ daemon.pc \in {"select", "sync", "upsert", "snapshot"}
    /\ daemon.phase = "loop"
    /\ tickerC = 1
    /\ tickerC' = 0
    /\ daemon' = [daemon EXCEPT !.pc = "poll", !.idx = 1,
                                !.running = @ \cup {"poll"}, !.cycle = <<>>]
    /\ started' = Start("poll")
    /\ UNCHANGED <<conn, sigCh, signals>>
    /\ UNCHANGED nonDaemonVars

\* case <-ticker.C: poll(&state) starts.
TickCase ==
    /\ daemon.pc = "select"
    /\ tickerC = 1
    /\ tickerC' = 0
    /\ daemon' = [daemon EXCEPT !.pc = "poll", !.idx = 1,
                                !.running = @ \cup {"poll"}, !.cycle = <<>>]
    /\ started' = Start("poll")
    /\ UNCHANGED <<conn, sigCh, signals>>
    /\ UNCHANGED nonDaemonVars

\* poll's loop over the projects; after the last, SyncAllProjects starts.
PollProject ==
    /\ daemon.pc = "poll"
    /\ IF daemon.idx < NumTracked
       THEN /\ daemon' = At("poll", daemon.idx + 1)
            /\ UNCHANGED started
       ELSE /\ daemon' = [daemon EXCEPT !.pc = "sync", !.idx = 1,
                                        !.running = (@ \ {"poll"}) \cup {"sync"},
                                        !.cycle = Append(@, "poll"),
                                        !.pass = <<>>, !.log = "none"]
            /\ started' = Start("sync")
    /\ UNCHANGED <<conn, tickerC, sigCh, signals>>
    /\ UNCHANGED nonDaemonVars

\* A SyncAllProjects that returns without a snapshot when the fetches of one
\* of its projects failed.
AfterProjectSkipOnFailure(ok) ==
    IF daemon.idx < NumTracked
    THEN /\ daemon' = [At("sync", daemon.idx + 1) EXCEPT
                           !.pass = Append(@, Synced(daemon.idx, ok))]
         /\ started' = started
    ELSE IF ok /\ \A i \in DOMAIN daemon.pass : daemon.pass[i].ok
    THEN /\ daemon' = [At("snapshot", 0) EXCEPT
                           !.pass = Append(@, Synced(daemon.idx, ok))]
         /\ started' = Start("snapshot")
    ELSE /\ daemon' = [daemon EXCEPT !.pc = "select", !.idx = 0, !.phase = "loop",
                                     !.running = @ \ {"sync"},
                                     !.cycle = Append(@, "sync"),
                                     !.pass = Append(@, Synced(daemon.idx, ok))]
         /\ started' = started

\* syncProject of project idx returned, its fetches having succeeded or not:
\* the next project, or after the last one db.CreateSnapshot.
AfterProject(ok) ==
    IF daemon.idx < NumTracked
    THEN /\ daemon' = [At("sync", daemon.idx + 1) EXCEPT
                           !.pass = Append(@, Synced(daemon.idx, ok))]
         /\ started' = started
    ELSE /\ daemon' = [At("snapshot", 0) EXCEPT
                           !.pass = Append(@, Synced(daemon.idx, ok))]
         /\ started' = Start("snapshot")

\* syncProject's fetches of project idx are over, all pages received (ok) or
\* a fetch failed: with stories to store it goes on to its upserts, without
\* any it is done.
SyncFetched(any, ok) ==
    /\ daemon.pc = "sync"
    /\ IF any
       THEN /\ daemon' = [At("upsert", daemon.idx) EXCEPT !.fetchOk = ok]
            /\ started' = Start("upsert")
       ELSE AfterProject(ok)
    /\ UNCHANGED <<conn, tickerC, sigCh, signals>>
    /\ UNCHANGED nonDaemonVars

\* The upserts of project idx are done.
UpsertsDone ==
    /\ daemon.pc = "upsert"
    /\ AfterProject(daemon.fetchOk)
    /\ UNCHANGED <<conn, tickerC, sigCh, signals>>
    /\ UNCHANGED nonDaemonVars

\* db.CreateSnapshot returned, with or without an error, and SyncAllProjects
\* logged the result and returned: at startup signal.Notify and
\* time.NewTicker follow; then the select.
SnapshotDone(ok) ==
    /\ daemon.pc = "snapshot"
    /\ daemon' = [daemon EXCEPT !.pc = "select", !.idx = 0, !.phase = "loop",
                                !.running = @ \ {"sync"},
                                !.cycle = Append(@, "sync"),
                                !.pass = Append(@, Snapshot(ok)),
                                !.log = SnapshotLog(ok)]
    /\ UNCHANGED <<conn, tickerC, sigCh, signals, started>>
    /\ UNCHANGED nonDaemonVars

\* A signal case that closes the store and goes round the loop again.
SignalCaseKeepLooping ==
    /\ daemon.pc = "select"
    /\ sigCh = 1
    /\ sigCh' = 0
    /\ conn' = "closed"
    /\ UNCHANGED <<daemon, tickerC, signals, started>>
    /\ UNCHANGED nonDaemonVars

\* case sig := <-sigCh: db.Close() and return.
SignalCase ==
    /\ daemon.pc = "select"
    /\ sigCh = 1
    /\ sigCh' = 0
    /\ conn' = IF conn = "open" THEN "closed" ELSE conn
    /\ daemon' = At("exited", 0)
    /\ UNCHANGED <<tickerC, signals, started>>
    /\ UNCHANGED nonDaemonVars

\* runDaemon enters its initial poll.
DaemonInit ==
    /\ daemon = [pc |-> "poll", idx |-> 1, phase |-> "initial",
                 running |-> {"poll"}, cycle |-> <<>>,
                 pass |-> <<>>, fetchOk |-> TRUE, log |-> "none"]
    /\ tickerC = 0
    /\ sigCh = 0
    /\ signals = 0
    /\ started = {[op |-> "poll", conn |-> "open"]}

DaemonParked == DaemonInit

\* What the tick case does once it was chosen.
TickWork ==
    \/ PollProject
    \/ \E any, ok \in BOOLEAN : SyncFetched(any, ok)
    \/ UpsertsDone
    \/ \E ok \in BOOLEAN : SnapshotDone(ok)

DaemonNext ==
    \/ TickerFires
    \/ Signal
    \/ TickCase
    \/ TickWork
    \/ SignalCase

----------------------------------------------------------------------------
(* The process and its credentials (config.Init, main.go, the handlers of   *)
(* the MCP server).  net collects the kinds of request the process sent:    *)
(* the calls of the v5 API, which carry the token, and the login and write  *)
(* requests of the session client.                                          *)

Commands == {"serve", "daemon", "sync"}

Tokens == {"", "your_api_token_here", "tok"}

\* The v5 API calls each command makes: the MCP handlers, poll and sync.
ApiCalls(cmd) ==
    CASE cmd = "serve" -> {"GetMe", "ListStories", "GetStoryComments", "GetProjectActivity"}
      [] cmd = "daemon" -> {"GetProjectActivity", "ListStories", "GetStoryComments"}
      [] cmd = "sync" -> {"ListStories", "GetStoryComments"}

SessionRequests == {"login", "write"}

Proc(cmd, pc, lastWrite) == [cmd |-> cmd, pc |-> pc, lastWrite |-> lastWrite]

\* A config.Init that does not look at the token.
ConfigInitNoTokenCheck(token) == "nil"

\* config.Init: an error when LITETRACKER_TOKEN is unset or the placeholder;
\* the e-mail and the password are read and not tested.
ConfigInit(token) ==
    IF token = "" \/ token = "your_api_token_here"
    THEN "LITETRACKER_TOKEN is required"
    ELSE "nil"

\* runServe, runDaemon, runSync: config.Init first, os.Exit(1) on its error.
Startup ==
    /\ process.pc = "start"
    /\ process' = [process EXCEPT !.pc = IF ConfigInit(CToken) = "nil"
                                        THEN "running" ELSE "exited"]
    /\ UNCHANGED <<CToken, net, webVars>>
    /\ UNCHANGED nonCfgVars

\* One call of the v5 API: request() sends it with the token.
ApiRequest(call) ==
    /\ process.pc = "running"
    /\ call \in ApiCalls(process.cmd)
    /\ net' = net \cup {call}
    /\ UNCHANGED <<process, CToken, webVars>>
    /\ UNCHANGED nonCfgVars

\* One write call of the MCP server (post_comment, add_label, add_owner), by
\* the requests it sends: none when ensureLoggedIn finds the e-mail or the
\* password unset, the login unless logged in, the write after a login that
\* succeeded, and both again after a write that reported an expired session.
WriteCall(loginOk, expired) ==
    /\ process.pc = "running"
    /\ process.cmd = "serve"
    /\ IF loggedIn
       THEN /\ net' = net \cup {"write"} \cup (IF expired THEN {"login"} ELSE {})
            /\ loggedIn' = (~expired \/ loginOk)
            /\ process' = [process EXCEPT !.lastWrite =
                              IF expired /\ ~loginOk THEN "login error" ELSE "sent"]
       ELSE IF ~credsSet
       THEN /\ process' = [process EXCEPT !.lastWrite = "config error"]
            /\ UNCHANGED <<net, loggedIn>>
       ELSE /\ net' = net \cup {"login"} \cup (IF loginOk THEN {"write"} ELSE {})
            /\ loggedIn' = loginOk
            /\ process' = [process EXCEPT !.lastWrite =
                              IF loginOk THEN "sent" ELSE "login error"]
    /\ UNCHANGED <<CToken, webOnce, webClients, mu, lockedUse, credsSet, remoteOwners,
                   callers, log, lastRet>>
    /\ UNCHANGED nonCfgVars

\* The process ends.
Exit ==
    /\ process.pc = "running"
    /\ process' = [process EXCEPT !.pc = "exited"]
    /\ UNCHANGED <<CToken, net, webVars>>
    /\ UNCHANGED nonCfgVars

CfgInit ==
    /\ process \in {Proc(cmd, "start", "none") : cmd \in Commands}
    /\ CToken \in Tokens
    /\ net = {}
    /\ webOnce = FALSE
    /\ webClients = 0
    /\ mu = 0
    /\ loggedIn = FALSE
    /\ lockedUse = TRUE
    /\ credsSet \in BOOLEAN
    /\ remoteOwners = <<>>
    /\ callers = [c \in Callers |-> Idle]
    /\ log = <<>>
    /\ lastRet = NoRet

\* A process that runs with its token set.
CfgParked ==
    /\ process = Proc("serve", "running", "none")
    /\ CToken = "tok"
    /\ net = {}

CfgNext ==
    \/ Startup
    \/ \E call \in UNION {ApiCalls(cmd) : cmd \in Commands} : ApiRequest(call)
    \/ \E loginOk \in BOOLEAN, expired \in BOOLEAN : WriteCall(loginOk, expired)
    \/ Exit

----------------------------------------------------------------------------
(* Specifications: one per component, the other components at rest. *)

InitStore ==
    StoreInit /\ WebParked /\ SnapParked /\ PollParked /\ SyncParked /\ BootParked
        /\ DaemonParked /\ CfgParked
SpecStore == InitStore /\ [][StoreNext]_vars

InitWeb ==
    StoreParked /\ WebInit /\ SnapParked /\ PollParked /\ SyncParked /\ BootParked
        /\ DaemonParked /\ CfgParked
SpecWeb == InitWeb /\ [][WebNext]_vars

InitSnap ==
    StoreParked /\ WebParked /\ SnapInit /\ PollParked /\ SyncParked /\ BootParked
        /\ DaemonParked /\ CfgParked
SpecSnap == InitSnap /\ [][SnapNext]_vars

InitPoll ==
    StoreParked /\ WebParked /\ SnapParked /\ PollInit /\ SyncParked /\ BootParked
        /\ DaemonParked /\ CfgParked
SpecPoll == InitPoll /\ [][PollNext]_vars

InitNotify ==
    StoreParked /\ WebParked /\ SnapParked /\ NotifyInit /\ SyncParked /\ BootParked
        /\ DaemonParked /\ CfgParked
SpecNotify == InitNotify /\ [][NotifyNext]_vars

InitSync ==
    StoreParked /\ WebParked /\ SnapParked /\ PollParked /\ SyncInit /\ BootParked
        /\ DaemonParked /\ CfgParked
SpecSync == InitSync /\ [][SyncNext]_vars

InitBoot ==
    BootInit /\ WebParked /\ SnapParked /\ PollParked /\ SyncParked /\ DaemonParked
        /\ CfgParked
SpecBoot == InitBoot /\ [][BootNext]_vars

\* The daemon with the scheduling the runtime gives it: a step of poll or
\* sync that can be taken is taken, the select takes the tick when only the
\* tick is ready, and a select that is reached again and again with a signal
\* waiting takes the signal case in the end (the runtime picks among the
\* ready cases at random).
InitDaemon ==
    StoreParked /\ WebParked /\ SnapParked /\ PollParked /\ SyncParked /\ BootParked
        /\ DaemonInit /\ CfgParked

SpecDaemon ==
    /\ InitDaemon
    /\ [][DaemonNext]_vars
    /\ WF_vars(TickCase)
    /\ WF_vars(TickWork)
    /\ SF_vars(SignalCase)

InitCfg ==
    StoreParked /\ SnapParked /\ PollParked /\ SyncParked /\ BootParked /\ DaemonParked
        /\ CfgInit
SpecCfg == InitCfg /\ [][CfgNext]_vars

\* The daemon started with LITETRACKER_USERNAME unset, on a fresh data
\* directory.
NoNameInit ==
    /\ clock = 0
    /\ stateFile = NoFile
    /\ state = loadPollState(stateFile, clock)
    /\ pollCall = PollIdle
    /\ fetches = <<>>
    /\ sent = <<>>
    /\ lastCycle = NoCycle
    /\ CUsername = <<>>
    /\ loaded = Loaded(stateFile, clock)

\* Responses of one story update each.
UpdateLists ==
    {<<a>> : a \in {x \in Activities : x.Kind = "story_update_activity" /\ x.PerformedBy # ""}}

\* runDaemon's initial poll.
FirstPoll == lastCycle = NoCycle /\ PollStart

\* The sync of a project that follows the initial poll.
FirstSync(projectID) == lastCycle # NoCycle /\ passes = 0 /\ SyncProject(projectID)

\* runDaemon up to its first sync of a project: the initial poll, on
\* responses of one story update, then syncProject.
NoNameNext ==
    \/ FirstPoll
    \/ \E activities \in UpdateLists : RecvActivity(TRUE, activities)
    \/ RecvActivity(FALSE, <<>>)
    \/ PollSave("written")
    \/ \E projectID \in ProjectIds : FirstSync(projectID)
    \/ \E list \in StoryLists : FetchStories(TRUE, list)
    \/ FetchStories(FALSE, <<>>)
    \/ \E ok \in BOOLEAN : UpsertOne(ok)
    \/ \E list \in AllCommentLists : FetchComments(TRUE, list)
    \/ FetchComments(FALSE, <<>>)
    \/ \E ok \in BOOLEAN : UpsertOneComment(ok)
    \/ \E ok \in BOOLEAN : MarkOne(ok)

InitNoName ==
    StoreParked /\ WebParked /\ SnapParked /\ NoNameInit /\ SyncInit /\ BootParked
        /\ DaemonParked /\ CfgParked
SpecNoName == InitNoName /\ [][NoNameNext]_vars

----------------------------------------------------------------------------
(* Claims about the store, under SpecStore *)

\* The columns of a story row other than mentions_me.
StoryScalars(r) ==
    [id |-> r.id, project_id |-> r.project_id, title |-> r.title,
     is_mine |-> r.is_mine, created_at |-> r.created_at, updated_at |-> r.updated_at]

\* C1: after UpsertStory ran on an id that was already stored, the table holds
\* exactly one row for that id and every column of it other than mentions_me
\* has the value of this second call.
C1_SecondUpsertWins ==
    (lastCall.op = "UpsertStory" /\ lastCall.ok /\ lastCall.existed) =>
        LET rows == StoryRowsOf(stories, lastCall.row.ID)
        IN  /\ Cardinality(rows) = 1
            /\ \A r \in rows : StoryScalars(r) = StoryScalars(StoryExcluded(lastCall.row))

\* C2: a story row or comment row whose mentions_me is true has it true after
\* every store call (UpsertStory, UpsertComment, MarkStoryMentionsMe).
C2_MentionsMeMonotonic ==
    [][/\ \A r \in stories : r.mentions_me =>
             \A r2 \in stories' : r2.id = r.id => r2.mentions_me
       /\ \A c \in comments : c.mentions_me =>
             \A c2 \in comments' : c2.id = c.id => c2.mentions_me]_vars

\* C2 witness: UpsertStory with MentionsMe = false ran on a stored row and the
\* row's flag is true.
C2_Witness ==
    /\ lastCall.op = "UpsertStory" /\ lastCall.ok /\ lastCall.existed
    /\ ~lastCall.row.MentionsMe
    /\ \E r \in stories : r.id = lastCall.row.ID /\ r.mentions_me

\* The columns of a comment row other than mentions_me.
CommentScalars(r) ==
    [id |-> r.id, story_id |-> r.story_id, project_id |-> r.project_id,
     text |-> r.text, created_at |-> r.created_at]

\* C25: a step in which UpsertStory or UpsertComment ran without error on an
\* id already stored leaves that row with every column other than mentions_me
\* as the call gave it (project_id of a story, story_id, project_id and
\* created_at of a comment included) and with mentions_me true exactly when
\* the call's flag or the stored flag was true.
C25_ConflictOverwritesScalars ==
    [][/\ (lastCall'.op = "UpsertStory" /\ lastCall'.ok /\ lastCall'.existed)
          => \A old \in StoryRowsOf(stories, lastCall'.row.ID),
                r \in StoryRowsOf(stories', lastCall'.row.ID) :
                /\ StoryScalars(r) = StoryScalars(StoryExcluded(lastCall'.row))
                /\ r.mentions_me = (lastCall'.row.MentionsMe \/ old.mentions_me)
       /\ (lastCall'.op = "UpsertComment" /\ lastCall'.ok /\ lastCall'.existed)
          => \A old \in CommentRowsOf(comments, lastCall'.row.ID),
                r \in CommentRowsOf(comments', lastCall'.row.ID) :
                /\ CommentScalars(r) = CommentScalars(CommentExcluded(lastCall'.row))
                /\ r.mentions_me = (lastCall'.row.MentionsMe \/ old.mentions_me)
      ]_vars

\* A date text that is empty or that the service's format does not match.
Unparseable(dateStr) == dateStr.form \in {"empty", "nomatch"}

\* The columns of a story row that hold no timestamp.
StoryPlain(r) ==
    [id |-> r.id, project_id |-> r.project_id, title |-> r.title,
     is_mine |-> r.is_mine, mentions_me |-> r.mentions_me]

\* The columns of a comment row that hold no timestamp.
CommentPlain(r) ==
    [id |-> r.id, story_id |-> r.story_id, project_id |-> r.project_id,
     text |-> r.text, mentions_me |-> r.mentions_me]

\* C26, for stories: after UpsertStory ran without error, the row's
\* created_at (updated_at) is NULL when the call's text for it is empty or
\* not in the service's format, and the other columns are what the same call
\* with well-formed dates leaves.
C26_Story ==
    (lastCall'.op = "UpsertStory" /\ lastCall'.ok)
    => \A r \in StoryRowsOf(stories', lastCall'.row.ID) :
          /\ Unparseable(lastCall'.row.CreatedAt) => r.created_at = NULL
          /\ Unparseable(lastCall'.row.UpdatedAt) => r.updated_at = NULL
          /\ \E g \in StoryRowsOf(UpsertStoryTable(stories,
                         [lastCall'.row EXCEPT !.CreatedAt = GoodDate,
                                               !.UpdatedAt = GoodDate]),
                         lastCall'.row.ID) :
                StoryPlain(g) = StoryPlain(r)

\* C26, for comments, likewise with created_at.
C26_Comment ==
    (lastCall'.op = "UpsertComment" /\ lastCall'.ok)
    => \A r \in CommentRowsOf(comments', lastCall'.row.ID) :
          /\ Unparseable(lastCall'.row.CreatedAt) => r.created_at = NULL
          /\ \E g \in CommentRowsOf(UpsertCommentTable(comments,
                         [lastCall'.row EXCEPT !.CreatedAt = GoodDate]),
                         lastCall'.row.ID) :
                CommentPlain(g) = CommentPlain(r)

\* C26: an upsert of a story or comment whose date text is empty or not in
\* the service's format stores that timestamp as NULL and writes the other
\* columns as it does with well-formed dates.
C26_BadDateStoredAsNull == [][C26_Story /\ C26_Comment]_vars

----------------------------------------------------------------------------
(* Claims about the session client, under SpecWeb *)

LogIdx == 1..Len(log)

\* C3: when the owner list addOwner reads through GetStory holds the user id,
\* the next event is addOwner's return of that very list without error: no
\* PUT is sent.
C3_AddOwnerPresentIsNoop ==
    \A i \in LogIdx :
        (/\ log[i].ev = "getstory" /\ log[i].res.ok
         /\ InList(log[i].res.val.owners, log[i].ownerID))
        => /\ i < Len(log)
           /\ log[i + 1].ev = "write"
           /\ log[i + 1].res = log[i].res
           /\ \A j \in LogIdx : j > i => log[j].ev # "put"

\* C3 witness: WebAddOwner returned the list it read, which holds the user id.
C3_Witness ==
    /\ lastRet.op = "WebAddOwner" /\ lastRet.res.ok
    /\ InList(lastRet.res.val.owners, lastRet.ownerID)
    /\ \E i \in LogIdx : log[i].ev = "getstory" /\ log[i].res = lastRet.res
    /\ \A i \in LogIdx : log[i].ev # "put"

\* C4 as stated: WebPostComment whose login POST was answered 401, every
\* later response being a success, returns a comment and ends logged in.
C4_Login401ThenSuccess ==
    (/\ lastRet.op = "WebPostComment"
     /\ \E i \in LogIdx :
           /\ log[i].ev = "login" /\ log[i].res = Err(LoginErr("login", 401))
           /\ \A j \in LogIdx : j > i => log[j].res.ok)
    => (lastRet.res.ok /\ lastRet.loggedIn)

\* C4 amended: WebPostComment whose first POST of the comment was answered
\* 401, followed by a successful re-login and a successful second POST,
\* returns the comment of the second POST without error and ends logged in.
C4_Write401ReloginRetry ==
    (/\ lastRet.op = "WebPostComment"
     /\ \E i \in LogIdx :
           /\ i + 2 = Len(log)
           /\ log[i].ev = "write" /\ ~log[i].res.ok /\ log[i].res.err.status = 401
           /\ log[i + 1].ev = "login" /\ log[i + 1].res.ok
           /\ log[i + 2].ev = "write" /\ log[i + 2].res.ok)
    => /\ lastRet.res = Ok(Val("comment", <<>>))
       /\ lastRet.loggedIn

\* C4 witness: such a call has returned.
C4_Witness ==
    /\ lastRet.op = "WebPostComment" /\ lastRet.res.ok /\ lastRet.loggedIn
    /\ \E i \in LogIdx :
          /\ log[i].ev = "write" /\ log[i].res = Err(WriteErr(401, "none"))
          /\ i + 2 = Len(log) /\ log[i + 1].ev = "login" /\ log[i + 2].ev = "write"

WritesOf(c) == {i \in LogIdx : log[i].caller = c /\ log[i].ev = "write"}

\* C9: a call attempts its write at most twice; a second attempt follows a
\* first that failed with a session-expiry message and exactly one login,
\* which succeeded; the second attempt's result is what the call returns, and
\* nothing follows it.
C9_AtMostOneRetry ==
    \A c \in Callers :
        /\ Cardinality(WritesOf(c)) <= 2
        /\ \A i \in WritesOf(c), j \in WritesOf(c) :
              i < j =>
                /\ ~log[i].res.ok /\ IsSessionExpiry(log[i].res.err)
                /\ Cardinality({k \in LogIdx : i < k /\ k < j /\ log[k].ev = "login"}) = 1
                /\ \A k \in LogIdx : (i < k /\ k < j /\ log[k].ev = "login") => log[k].res.ok
                /\ j = Len(log)
                /\ lastRet.caller = c
                /\ lastRet.res = log[j].res

\* C9 witness: a call returned the error of its second attempt.
C9_Witness ==
    /\ lastRet.caller # 0 /\ ~lastRet.res.ok
    /\ Cardinality(WritesOf(lastRet.caller)) = 2
    /\ log[Len(log)].ev = "write" /\ log[Len(log)].res = lastRet.res

SessionWaits == {"getLogin", "postLogin", "waitWrite", "waitPut"}

\* C10: at most one request is in flight on the session client, a caller
\* past Lock holds wc.mu, wc.loggedIn was only ever used under the lock, and
\* one WebClient exists.
C10_Serialized ==
    /\ Cardinality({c \in Callers : callers[c].pc \in SessionWaits}) <= 1
    /\ \A c \in Callers : callers[c].pc \notin {"idle", "lock"} => mu = c
    /\ lockedUse
    /\ webClients <= 1

\* C10 witness: one caller waits for the lock while another's write is in
\* flight.
C10_Witness ==
    \E c \in Callers, d \in Callers :
        /\ callers[c].pc = "waitWrite"
        /\ callers[d].pc = "lock"
        /\ webClients = 1

\* The result of a write that failed with a response of status 401, or with
\* a response whose body excerpt holds "sign in".
IsExpiryResponse(res) ==
    /\ ~res.ok
    /\ \/ res.err.status = 401
       \/ res.err.status # 0 /\ res.err.marker = "sign in"

LastEvent(l) == l[Len(l)]

FirstWrite(l) ==
    CHOOSE i \in 1..Len(l) :
        l[i].ev = "write" /\ \A j \in 1..(i - 1) : l[j].ev # "write"

LoginsAfter(l, i) == {k \in 1..Len(l) : k > i /\ l[k].ev = "login"}

WritesAfter(l, i) == {k \in 1..Len(l) : k > i /\ l[k].ev = "write"}

\* C17: loggedIn goes from false to true only in the step in which a login
\* completes successfully, and from true to false only in the step in which
\* a write of the call failed with a 401 / "sign in" response; the call in
\* which that happened (its phase is 2 from then on) makes exactly one login
\* attempt after it and, when that login succeeds, exactly one more attempt
\* of the write, and none when it fails.
C17_SessionFlagTransitions ==
    [][/\ (~loggedIn /\ loggedIn')
          => /\ Len(log') = Len(log) + 1
             /\ LastEvent(log').ev = "login" /\ LastEvent(log').res.ok
       /\ (loggedIn /\ ~loggedIn')
          => /\ Len(log') > Len(log)
             /\ LastEvent(log').ev = "write"
             /\ IsExpiryResponse(LastEvent(log').res)
             /\ callers'[mu].pc = "login" /\ callers'[mu].phase = 2
       /\ \A c \in Callers :
             /\ (callers[c].phase = 1 /\ callers'[c].phase = 2)
                => (loggedIn /\ ~loggedIn')
             /\ (callers[c].phase = 2 /\ callers'[c].pc = "idle")
                => LET i == FirstWrite(log')
                   IN  /\ Cardinality(LoginsAfter(log', i)) = 1
                       /\ \A k \in LoginsAfter(log', i) :
                             Cardinality(WritesAfter(log', i)) =
                                 IF log'[k].res.ok THEN 1 ELSE 0
      ]_vars

\* The errors of ensureLoggedIn for a login that failed: the login page or
\* the login POST had a transport error, the page held no CSRF token, or the
\* POST was answered 401 or 422.
LoginFailures ==
    {Err(LoginErr("transport", 0)), Err(LoginErr("no_token", 0)),
     Err(LoginErr("login", 0)), Err(LoginErr("login", 401)),
     Err(LoginErr("login", 422))}

\* C18: a login that failed is the last thing its call did: the call
\* returned that error to its caller, no write was sent after it (none at
\* all when it was the call's first step), and loggedIn is false; and an
\* ensureLoggedIn that finds loggedIn false, the credentials being set,
\* requests the login page again.
C18_FailedLoginAbortsCall ==
    [][/\ \A i \in 1..Len(log') :
             (log'[i].ev = "login" /\ log'[i].res \in LoginFailures)
             => /\ i = Len(log')
                /\ lastRet'.caller = log'[i].caller
                /\ lastRet'.res = log'[i].res
                /\ ~lastRet'.loggedIn
                /\ ~loggedIn'
                /\ callers'[log'[i].caller].pc \in {"idle", "lock"}
                /\ (\A j \in 1..(i - 1) : log'[j].ev # "write")
                   \/ Cardinality(WritesAfter(log', 0)) = 1
       /\ \A c \in Callers :
             (callers[c].pc = "login" /\ callers'[c].pc # "login"
              /\ ~loggedIn /\ credsSet)
             => callers'[c].pc = "getLogin"
      ]_vars

\* C18 witness: a call returned the error of a login POST answered 422
\* without a write, loggedIn is false, and another call is waiting to start.
C18_Witness ==
    /\ lastRet.res = Err(LoginErr("login", 422))
    /\ log = <<Event(lastRet.caller, "login", lastRet.res)>>
    /\ ~loggedIn
    /\ \E d \in Callers : callers[d].pc = "lock"

\* C32: when the first attempt of a call's write fails with anything but a
\* response of status 401 or a response holding "sign in" (a transport error
\* included), the call returns that error in the same step, with loggedIn as
\* it was; no login and no second attempt follow.
C32_OtherFailureReturnsAtOnce ==
    [][\A c \in Callers :
          (/\ callers[c].phase = 1
           /\ Len(log') > Len(log)
           /\ LastEvent(log').ev = "write"
           /\ LastEvent(log').caller = c
           /\ ~LastEvent(log').res.ok
           /\ ~IsExpiryResponse(LastEvent(log').res))
          => /\ callers'[c].pc = "idle"
             /\ lastRet'.caller = c
             /\ lastRet'.res = LastEvent(log').res
             /\ loggedIn' = loggedIn
      ]_vars

\* C34: when the response to the login POST arrives, ensureLoggedIn sets
\* loggedIn and returns nil for every status but 401 and 422, and returns an
\* error with loggedIn false for 401, 422 and a transport error only.
C34_LoginAcceptsAnyOtherStatus ==
    [][\A c \in Callers :
          (callers[c].pc = "postLogin" /\ callers'[c].pc # "postLogin")
          => LET e == LastEvent(log')
             IN  /\ Len(log') = Len(log) + 1
                 /\ e.ev = "login" /\ e.caller = c
                 /\ e.res.ok =>
                       /\ loggedIn'
                       /\ e.res.val.owners[1] \in LoginStatuses \ {401, 422}
                 /\ ~e.res.ok =>
                       /\ ~loggedIn'
                       /\ e.res.err.status \in {0, 401, 422}
      ]_vars

\* C34 witness: after a login POST answered 403 the session is marked logged
\* in and the write of the call has gone out.
C34_Witness ==
    /\ loggedIn
    /\ log = <<Event(mu, "login", Ok(Val("login", <<403>>)))>>
    /\ callers[mu].pc = "waitWrite"

\* C35: with WebAddOwner calls running at the same time, the owner list a
\* call read is still the story's owner list when its replace is in flight;
\* no step drops an owner from the story; and a WebAddOwner that returns
\* without error leaves its user id in the owner list. Two calls that both
\* succeed therefore leave both users as owners.
C35_ConcurrentAddOwnerKeepsBoth ==
    /\ [](\A c \in Callers :
            callers[c].pc = "waitPut" =>
                callers[c].ids = Append(remoteOwners, callers[c].ownerID))
    /\ [][/\ \A x \in UserIds : InList(remoteOwners, x) => InList(remoteOwners', x)
          /\ (lastRet' # lastRet /\ lastRet'.op = "WebAddOwner" /\ lastRet'.res.ok)
                => InList(remoteOwners', lastRet'.ownerID)
         ]_vars

\* C35 witness: the story has no owner; one WebAddOwner has read the empty
\* list and its replace is in flight while a WebAddOwner for another user
\* waits for the lock.
C35_Witness ==
    /\ remoteOwners = <<>>
    /\ \E c, d \in Callers :
          /\ callers[c].pc = "waitPut" /\ callers[c].op = "WebAddOwner"
          /\ callers[d].pc = "lock" /\ callers[d].op = "WebAddOwner"
          /\ callers[c].ownerID # callers[d].ownerID

\* C23: when the owner list addOwner reads through GetStory does not hold
\* the user id, the next event is the one PUT of that addOwner, whose id list
\* is the list as read, in order, followed by the user id; what follows the
\* PUT is its result.
C23_AddOwnerAppends ==
    \A i \in LogIdx :
        (/\ log[i].ev = "getstory" /\ log[i].res.ok
         /\ ~InList(log[i].res.val.owners, log[i].ownerID))
        => /\ i < Len(log)
           /\ log[i + 1].ev = "put"
           /\ log[i + 1].res.val.owners =
                  log[i].res.val.owners \o <<log[i].ownerID>>
           /\ i + 2 <= Len(log) => log[i + 2].ev = "write"

\* C23 witness: WebAddOwner returned after a PUT of two ids, the owner the
\* story had and then the new one, which the remote applied.
C23_Witness ==
    /\ lastRet.op = "WebAddOwner" /\ lastRet.res.ok
    /\ \E i \in LogIdx :
          /\ log[i].ev = "put"
          /\ Len(log[i].res.val.owners) = 2
          /\ log[i].res.val.owners[2] = lastRet.ownerID
          /\ remoteOwners = log[i].res.val.owners

----------------------------------------------------------------------------
(* Claims about the snapshot manager, under SpecSnap *)

\* C5: at every step of CreateSnapshot, also when it fails or is interrupted,
\* the published snapshot path holds no file or a complete copy of one
\* database version, and it changes only in the rename step, to the complete
\* copy that was written to the tmp path.
C5_SnapshotAtomic ==
    [][/\ snapFile' = Absent \/ Complete(snapFile')
       /\ snapFile' # snapFile =>
            /\ snapCall.pc = "rename"
            /\ snapCall'.ret = "ok"
            /\ tmpFile = File(snapCall.data)
            /\ Complete(tmpFile)
            /\ snapFile' = tmpFile]_vars

\* C5 witness: CreateSnapshot was interrupted in the middle of the copy of a
\* newer database, the tmp file is partial and the published snapshot is the
\* complete older one.
C5_Witness ==
    /\ snapCall.ret = "interrupted"
    /\ tmpFile.exists
    /\ Len(tmpFile.bytes) \in 1..(FileChunks - 1)
    /\ tmpFile.bytes[1] = dbFile
    /\ Complete(snapFile)
    /\ snapFile.bytes # DbBytes(dbFile)

\* The steps of CreateSnapshot in their order.
SnapOrder == <<"remove", "checkpoint", "read", "write", "rename">>

SnapErrors == {"checkpoint", "read db", "write tmp", "rename"}

\* The steps of the call are the first steps of SnapOrder, all of them when
\* it returned nil.
InSnapOrder ==
    /\ Len(snapCall.steps) <= Len(SnapOrder)
    /\ \A i \in DOMAIN snapCall.steps : snapCall.steps[i] = SnapOrder[i]
    /\ snapCall.ret = "ok" => snapCall.steps = SnapOrder

----------------------------------------------------------------------------
(* Claims about the poll loop, under SpecPoll *)

C11_CursorNonDecreasing ==
    [][(pollCall.pc = "save" /\ pollCall'.pc = "idle" /\ ~lastCycle'.restarted) =>
          /\ pollCall.since = state.LastPoll
          /\ state'.LastPoll >= pollCall.since
          /\ (stateFile' # stateFile /\ stateFile'.kind = "json") =>
                stateFile'.lastPoll >= pollCall.since]_vars

\* C11 witness: a cycle that started with a cursor later than the start of
\* time ended with a later one, in memory and in the file.
C11_Witness ==
    /\ pollCall.pc = "idle"
    /\ lastCycle.since >= 1
    /\ lastCycle.now > lastCycle.since
    /\ state.LastPoll = lastCycle.now
    /\ stateFile = JsonFile(lastCycle.now)

----------------------------------------------------------------------------
(* Claims about the notifications of a poll cycle, under SpecNotify *)

\* The activities the cycle in progress has fetched.
Fetched ==
    UNION {{fetches[i].activities[j] : j \in DOMAIN fetches[i].activities} :
            i \in DOMAIN fetches}

NotifiedFor(activity) == \E n \in DOMAIN sent : sent[n] = Notification(activity)

\* s contains substr whatever the case of the letters.
ContainsNoCase(s, substr) == Contains(ToLower(s), ToLower(substr))

\* s contains substr when the letters A..Z of both are taken as a..z.
AsciiLower(s) == [i \in DOMAIN s |-> FoldByte(s[i])]
ContainsAsciiNoCase(s, substr) == Contains(AsciiLower(s), AsciiLower(substr))

IsCommentCreate(activity) == activity.Kind = "comment_create_activity"

RelevantPlaces ==
    UNION {{<<i, j>> : j \in {k \in DOMAIN fetches[i].activities :
                                    Notifiable(fetches[i].activities[k])}} :
            i \in DOMAIN fetches}

\* C13: in a poll cycle the number of notifications sent is the number of
\* fetched activities that satisfy the predicate, one for each of them, also
\* for an activity that satisfies several of its conditions.
C13_OneNotificationPerActivity ==
    /\ Len(sent) = Cardinality(RelevantPlaces)
    /\ \A p \in RelevantPlaces : NotifiedFor(fetches[p[1]].activities[p[2]])

\* C13 witness: a cycle fetched two activities of one project, the first a
\* comment whose message and new values both hold the username, and sent two
\* notifications.
C13_Witness ==
    /\ CUsername = Username
    /\ pollCall.pc = "save"
    /\ Len(sent) = 2
    /\ \E i \in DOMAIN fetches :
          /\ Len(fetches[i].activities) = 2
          /\ IsCommentCreate(fetches[i].activities[1])
          /\ ContainsAsciiNoCase(fetches[i].activities[1].Message, CUsername)
          /\ \E k \in DOMAIN fetches[i].activities[1].Changes :
                ContainsAsciiNoCase(fetches[i].activities[1].Changes[k], CUsername)
          /\ NotifiedFor(fetches[i].activities[2])

\* C15: a failed activity fetch for one project does not end the cycle: when
\* the loop of poll is over, every tracked project was fetched once, in the
\* configured order, and every relevant activity of the projects whose fetch
\* succeeded was notified.
C15_FailedFetchIsSkipped ==
    pollCall.pc = "save" =>
        /\ Len(fetches) = NumTracked
        /\ \A i \in DOMAIN fetches : fetches[i].pid = Tracked[i]
        /\ \A i \in DOMAIN fetches : \A j \in DOMAIN fetches[i].activities :
              Notifiable(fetches[i].activities[j]) => NotifiedFor(fetches[i].activities[j])

\* C15 witness: the fetch of the first project failed, the later projects
\* were fetched and a relevant activity of the last one was notified.
C15_Witness ==
    /\ pollCall.pc = "save"
    /\ ~fetches[1].ok
    /\ \A i \in 2..NumTracked : fetches[i].ok
    /\ Len(fetches[NumTracked].activities) = 1
    /\ Notifiable(fetches[NumTracked].activities[1])
    /\ sent = <<Notification(fetches[NumTracked].activities[1])>>

\* The activity satisfies a condition of the predicate of poll.
Relevant(a) ==
    \/ a.Message # <<>> /\ ContainsAsciiNoCase(a.Message, CUsername)
    \/ \E k \in DOMAIN a.Changes :
          /\ a.Changes[k] # NULL
          /\ ContainsAsciiNoCase(MarshalNewValues(a.Changes[k]), CUsername)
    \/ IsCommentCreate(a)

\* "<performer>: <message>" with the fallback for an empty name.
BodyOf(a) == <<IF a.PerformedBy = "" THEN "Someone" ELSE a.PerformedBy, ": ", a.Message>>

\* The title as stated: the name of the first primary resource itself.
BareTitleOf(a) ==
    IF a.PrimaryResources = <<>> THEN <<"LiteTracker">> ELSE <<Head(a.PrimaryResources)>>

\* The title as amended: the name between square brackets.
BracketTitleOf(a) ==
    IF a.PrimaryResources = <<>> THEN <<"LiteTracker">>
    ELSE <<"[", Head(a.PrimaryResources), "]">>

\* C30 as stated: every relevant fetched activity has a notification whose
\* title is the name of its first primary resource, or "LiteTracker" when it
\* has none, and whose body is "<performer>: <message>" with "Someone" for an
\* empty performer name; and every notification sent is one of these.
C30_TitleIsResourceName ==
    /\ \A a \in Fetched : Relevant(a) =>
          \E n \in DOMAIN sent : sent[n] = [title |-> BareTitleOf(a), body |-> BodyOf(a)]
    /\ \A n \in DOMAIN sent :
          \E a \in Fetched :
              Relevant(a) /\ sent[n] = [title |-> BareTitleOf(a), body |-> BodyOf(a)]

\* C30 as amended: the same with the title "[<name>]", the name of the first
\* primary resource between square brackets.
C30_TitleIsBracketedResourceName ==
    /\ \A a \in Fetched : Relevant(a) =>
          \E n \in DOMAIN sent : sent[n] = [title |-> BracketTitleOf(a), body |-> BodyOf(a)]
    /\ \A n \in DOMAIN sent :
          \E a \in Fetched :
              Relevant(a) /\ sent[n] = [title |-> BracketTitleOf(a), body |-> BodyOf(a)]

\* C30 witness: a cycle has sent a notification for an activity with two
\* primary resources and no performer name, titled after the first resource
\* with "Someone" as performer, and one for an activity without primary
\* resource, titled "LiteTracker" with the performer's name.
C30_Witness ==
    /\ pollCall.pc = "save"
    /\ \E a \in Fetched :
          /\ Len(a.PrimaryResources) = 2
          /\ a.PerformedBy = ""
          /\ \E n \in DOMAIN sent :
                /\ sent[n].title = <<"[", a.PrimaryResources[1], "]">>
                /\ sent[n].body = <<"Someone", ": ", a.Message>>
    /\ \E a \in Fetched :
          /\ a.PrimaryResources = <<>>
          /\ a.PerformedBy # ""
          /\ \E n \in DOMAIN sent :
                /\ sent[n].title = <<"LiteTracker">>
                /\ sent[n].body = <<a.PerformedBy, ": ", a.Message>>

----------------------------------------------------------------------------
(* Claims about the sync engine, under SpecSync *)

NoDuplicate(list) ==
    \A i, j \in DOMAIN list : list[i].ID = list[j].ID => i = j

OwnedCount(list) ==
    Cardinality({i \in DOMAIN list :
        \E k \in DOMAIN list[i].Owners : list[i].Owners[k] = ConfigUserID})

\* C7: when every state fetch and every story upsert of a pass succeeded and no
\* story came twice, the stats have Stories = the number of stories fetched and
\* Mine = the number of them whose owners include the configured user.
C7_StatsCountFetched ==
    (/\ syncCall.pc = "done"
     /\ syncCall.fetchOk
     /\ syncCall.upsertOk
     /\ NoDuplicate(syncCall.allStories)) =>
        /\ syncCall.Stories = Len(syncCall.allStories)
        /\ syncCall.Mine = OwnedCount(syncCall.allStories)

\* C7 witness: a pass fetched two stories, one of them owned by the configured
\* user, every call succeeded, and the stats are stories = 2, mine = 1.
C7_Witness ==
    /\ syncCall.pc = "done"
    /\ syncCall.fetchOk
    /\ syncCall.upsertOk
    /\ Len(syncCall.allStories) = 2
    /\ NoDuplicate(syncCall.allStories)
    /\ OwnedCount(syncCall.allStories) = 1
    /\ syncCall.Stories = 2
    /\ syncCall.Mine = 1

\* C8: after any sequence of syncProject passes, every comment row with
\* mentions_me = true has a story row with id = its story_id whose mentions_me
\* is true.
C8_FlaggedCommentHasFlaggedStory ==
    syncCall.pc \in {"idle", "done"} =>
        \A c \in comments : c.mentions_me =>
            \E r \in stories : r.id = c.story_id /\ r.mentions_me

StoryIdsOf(table) == {r.id : r \in table}
CommentIdsOf(table) == {r.id : r \in table}

\* C14: over any sequence of sync passes the ids in the stories table and in
\* the comments table only grow: no step of a pass deletes a row, and a story
\* that a later pass does not fetch stays stored.
C14_RowsNeverDeleted ==
    [][/\ StoryIdsOf(stories) \subseteq StoryIdsOf(stories')
       /\ CommentIdsOf(comments) \subseteq CommentIdsOf(comments')]_vars

\* C14 witness: the second pass fetched every state without error and has
\* ended; a story stored by the first pass that it did not fetch, and that
\* story's comment, are still stored.
C14_Witness ==
    /\ passes = 2
    /\ syncCall.pc = "done"
    /\ syncCall.fetchOk
    /\ syncCall.allStories # <<>>
    /\ \E r \in stories :
          /\ \A i \in DOMAIN syncCall.allStories : syncCall.allStories[i].ID # r.id
          /\ \E c \in comments : c.story_id = r.id

\* C16: a failed story fetch, story upsert, comment fetch or comment upsert is
\* skipped: a pass that has ended asked for all five states, called
\* UpsertStory for every story it fetched and GetStoryComments for every one
\* of them, and called UpsertComment for every comment returned.
C16_FailuresAreSkipped ==
    syncCall.pc = "done" =>
        /\ syncCall.calls.ListStories = NumStates
        /\ syncCall.calls.UpsertStory = DOMAIN syncCall.allStories
        /\ syncCall.calls.GetStoryComments = DOMAIN syncCall.allStories
        /\ syncCall.calls.UpsertComment = syncCall.calls.returned

\* C16 witness: a pass in which a state fetch failed, the upsert of the first
\* story failed and a comment fetch failed has stored the second story and
\* its comment.
C16_Witness ==
    /\ syncCall.pc = "done"
    /\ ~syncCall.fetchOk
    /\ ~syncCall.upsertOk
    /\ ~syncCall.calls.commentsOk
    /\ Len(syncCall.allStories) = 2
    /\ syncCall.Stories = 1
    /\ syncCall.Comments = 1
    /\ StoryIdsOf(stories) = {syncCall.allStories[2].ID}
    /\ \E c \in comments : c.story_id = syncCall.allStories[2].ID

----------------------------------------------------------------------------
(* Claims about the startup of the store, under SpecBoot *)

\* C19: once InitializeDatabase has returned, a file whose stored version
\* was below schemaVersion holds, when the call returned nil, both data
\* tables without rows and the version schemaVersion; a file whose stored
\* version was schemaVersion or above holds the story and comment rows it
\* held when the call began.
C19_MigrateOnlyWhenBelow ==
    initCall.pc = "done"
    => /\ (initCall.found.version < schemaVersion /\ initCall.ret = "nil")
          => /\ tables = DataTables
             /\ stories = {} /\ comments = {}
             /\ StoredVersion(schemaTable) = schemaVersion
       /\ initCall.found.version >= schemaVersion
          => /\ stories = initCall.found.stories
             /\ comments = initCall.found.comments

----------------------------------------------------------------------------
(* Claims about the daemon's loop, under SpecDaemon *)

Exited == daemon.pc = "exited" /\ conn = "closed"

\* C20: once a termination signal has been delivered to the loop, it eventually
\* leaves its select, with the store closed and the process at its exit; and
\* every poll, sync, upsert and snapshot operation was started with the store
\* open.
C20_SignalStopsLoop ==
    /\ (sigCh = 1) ~> Exited
    /\ [](\A s \in started : s.conn = "open")
    /\ [](conn = "closed" => daemon.pc = "exited")

\* C20 witness: the process has exited with the store closed, after a cycle
\* of poll, sync, upserts and snapshot and after every signal was delivered.
C20_Witness ==
    /\ Exited
    /\ {s.op : s \in started} = Ops4
    /\ signals = MaxSignals

\* C27: poll and SyncAllProjects never run at the same time; whenever the
\* daemon is at its select, one poll and then one SyncAllProjects have run to
\* completion since it last left it (or since startup); a tick or a signal is
\* taken from its channel only then; and no tick or signal is in a channel
\* before the startup poll and sync have returned.
C27_PollAndSyncNeverOverlap ==
    /\ [](Cardinality(daemon.running) <= 1)
    /\ [](daemon.pc = "select" =>
             daemon.running = {} /\ daemon.cycle = <<"poll", "sync">>)
    /\ [](daemon.phase = "initial" => tickerC = 0 /\ sigCh = 0)
    /\ [][(tickerC' < tickerC \/ sigCh' < sigCh) =>
             daemon.running = {} /\ daemon.cycle = <<"poll", "sync">>]_vars

\* C27 witness: inside a tick case poll has returned and SyncAllProjects is
\* running while the next tick and a signal wait in their channels.
C27_Witness ==
    /\ daemon.phase = "loop"
    /\ daemon.running = {"sync"}
    /\ daemon.cycle = <<"poll">>
    /\ tickerC = 1
    /\ sigCh = 1

\* The entries of daemon.pass are the tracked projects in their order and,
\* after the last of them only, one call of db.CreateSnapshot.
PassInOrder ==
    /\ Len(daemon.pass) <= NumTracked + 1
    /\ \A i \in DOMAIN daemon.pass :
          IF i <= NumTracked
          THEN daemon.pass[i].ev = "project" /\ daemon.pass[i].idx = i
          ELSE daemon.pass[i].ev = "snapshot"

\* The last call of SyncAllProjects has returned.
SyncReturned == daemon.phase = "loop" /\ daemon.pc \in {"select", "poll", "exited"}

\* C39: a call of SyncAllProjects takes its snapshot once, after syncProject
\* has returned for every tracked project and never between two of them,
\* whether or not the fetches of a project failed; when the call has returned
\* it has logged the snapshot's result, and a snapshot that failed leaves the
\* daemon at the select of its loop like one that succeeded.
C39_OneSnapshotAfterAllProjects ==
    /\ [](PassInOrder)
    /\ [](daemon.pc = "snapshot" =>
             /\ Len(daemon.pass) = NumTracked
             /\ \E s \in started : s.op = "snapshot")
    /\ [](SyncReturned =>
             /\ Len(daemon.pass) = NumTracked + 1
             /\ daemon.log = SnapshotLog(daemon.pass[NumTracked + 1].ok))
    /\ [][(daemon.pc = "snapshot" /\ daemon'.pc \notin {"snapshot", "killed"}) =>
             (daemon'.pc = "select" /\ daemon'.phase = "loop")]_vars

\* C39 witness: the next tick case has begun its poll after a call of
\* SyncAllProjects in which the fetches of a project failed and the snapshot,
\* taken all the same, failed too.
C39_Witness ==
    /\ daemon.phase = "loop"
    /\ daemon.pc = "poll"
    /\ Len(daemon.pass) = NumTracked + 1
    /\ ~daemon.pass[1].ok
    /\ ~daemon.pass[NumTracked + 1].ok
    /\ daemon.log = "snapshot creation failed"

\* The places of the pass's list whose story was stored by the pass.
StoredInPass(id) == {i \in syncCall.calls.stored : syncCall.allStories[i].ID = id}

\* The configured user is an owner in a fetched copy of story id.
FetchedAsOwned(id) ==
    \E j \in DOMAIN syncCall.allStories :
        /\ syncCall.allStories[j].ID = id
        /\ \E k \in DOMAIN syncCall.allStories[j].Owners :
              syncCall.allStories[j].Owners[k] = ConfigUserID

\* C28: when a pass has ended, every story that one of its UpsertStory calls
\* stored has a row whose is_mine is true exactly when the configured user is
\* in the owner list the pass fetched for that story, whatever is_mine was
\* before the pass.
C28_IsMineFollowsOwners ==
    syncCall.pc = "done" =>
        \A id \in StoryIds : StoredInPass(id) # {} =>
            /\ \E r \in stories : r.id = id
            /\ \A r \in stories : r.id = id => (r.is_mine <=> FetchedAsOwned(id))

\* C28 witness: a story stored with is_mine = true when the second pass began
\* was fetched by it without the configured user among its owners, and the
\* pass has ended with its is_mine = false.
C28_Witness ==
    /\ passes = 2
    /\ syncCall.pc = "done"
    /\ \E id \in syncCall.mineBefore :
          /\ StoredInPass(id) # {}
          /\ ~FetchedAsOwned(id)
          /\ \E r \in stories : r.id = id /\ ~r.is_mine

----------------------------------------------------------------------------
(* Claims about the poll cursor at startup, under SpecPoll *)

\* C22: after a loadPollState that found the poll-state file absent or
\* corrupt, the cursor is the time of that load (in the seconds of its
\* format) until the first poll ends, and no fetch the process makes asks for
\* activity from before the second in which it loaded the state.
C22_FreshCursorIsStartTime ==
    ~loaded.read
    => /\ lastCycle.restarted => state.LastPoll = FormatRFC3339(loaded.at)
       /\ state.LastPoll >= FormatRFC3339(loaded.at)
       /\ pollCall.pc # "idle"
          => \A i \in DOMAIN fetches : fetches[i].since >= FormatRFC3339(loaded.at)

\* C22 witness: a process started after second 0 on a corrupt state file has
\* fetched the activity of a project.
C22_Witness ==
    /\ ~loaded.read /\ stateFile = CorruptFile
    /\ FormatRFC3339(loaded.at) > 0
    /\ pollCall.pc # "idle" /\ fetches # <<>>

\* C31: when the last completed cycle wrote the poll-state file and the daemon
\* was started again and read that file, the cursor of the new process is the
\* now of that cycle until its first poll ends, and every fetch of that first
\* poll asks for the activity since then.
C31_CursorSurvivesRestart ==
    (lastCycle.restarted /\ lastCycle.saved /\ loaded.read) =>
        /\ state.LastPoll = lastCycle.now
        /\ \A i \in DOMAIN fetches : fetches[i].since = lastCycle.now

\* C31 witness: a cycle wrote its now, the daemon was started again in a later
\* second, read the file and has fetched the activity of a project since the
\* now of that cycle.
C31_Witness ==
    /\ lastCycle.restarted /\ lastCycle.saved /\ loaded.read
    /\ lastCycle.now > 0
    /\ FormatRFC3339(loaded.at) > lastCycle.now
    /\ fetches # <<>>
    /\ fetches[1].since = lastCycle.now

\* C33: poll takes now when it is entered, before any fetch, so now is never
\* later than a moment of the cycle; the cursor the cycle leaves in the state,
\* and in the file when the write succeeds, is that now; and the next cycle of
\* the process fetches since that now, so that every moment of a cycle is at
\* or after the since of the next one.
C33_WindowsAreContiguous ==
    /\ [](pollCall.pc # "idle" => pollCall.now <= FormatRFC3339(clock))
    /\ []((pollCall.pc # "idle" /\ lastCycle # NoCycle /\ ~lastCycle.restarted) =>
             /\ pollCall.since = lastCycle.now
             /\ \A i \in DOMAIN fetches : fetches[i].since = lastCycle.now)
    /\ [][/\ (pollCall.pc = "idle" /\ pollCall'.pc # "idle") =>
               /\ pollCall'.now = FormatRFC3339(clock)
               /\ fetches' = <<>>
          /\ (pollCall.pc = "save" /\ pollCall'.pc = "idle" /\ ~lastCycle'.restarted) =>
               /\ state'.LastPoll = pollCall.now
               /\ (lastCycle'.saved => stateFile' = JsonFile(pollCall.now))
         ]_vars

\* C33 witness: a later cycle of a process, entered in a later second than
\* the cycle before it, is fetching since the now of that cycle.
C33_Witness ==
    /\ pollCall.pc = "fetch"
    /\ ~lastCycle.restarted
    /\ fetches # <<>>
    /\ lastCycle.now > lastCycle.since
    /\ pollCall.since = lastCycle.now
    /\ pollCall.now > pollCall.since

\* The ids of the stories of the list that the configured user owns.
OwnedIds(list) ==
    {list[i].ID : i \in {j \in DOMAIN list :
        \E k \in DOMAIN list[j].Owners : list[j].Owners[k] = ConfigUserID}}

\* C37: in a pass stats.Stories goes up by one in the step of a db.UpsertStory
\* that returned no error and in no other, once for every copy of a story;
\* stats.Comments goes up by one in the step of a db.UpsertComment that
\* returned no error and in no other; and when the pass has ended stats.Mine
\* is the number of distinct ids among the fetched stories the user owns,
\* stored or not.
C37_StatsCounts ==
    /\ [](syncCall.pc = "done" =>
            /\ syncCall.Mine = Cardinality(OwnedIds(syncCall.allStories))
            /\ syncCall.Stories = Cardinality(syncCall.calls.stored)
            /\ syncCall.Stories <= Len(syncCall.allStories))
    /\ [][syncCall'.pc # "fetch" =>
            /\ syncCall'.Stories = syncCall.Stories +
                    (IF syncCall.pc = "upsert" /\ lastCall'.ok THEN 1 ELSE 0)
            /\ syncCall'.Comments = syncCall.Comments +
                    (IF syncCall.pc = "upsertComment" /\ lastCall'.ok THEN 1 ELSE 0)
         ]_vars

\* C37 witness: a pass fetched one story the user owns under two states and
\* stored both copies, and stored a comment: stories = 2, mine = 1,
\* comments = 1.
C37_Witness ==
    /\ syncCall.pc = "done"
    /\ Len(syncCall.allStories) = 2
    /\ syncCall.allStories[1].ID = syncCall.allStories[2].ID
    /\ syncCall.calls.stored = {1, 2}
    /\ syncCall.Stories = 2
    /\ syncCall.Mine = 1
    /\ syncCall.Comments = 1

Flagged(table, id) == \E r \in table : r.id = id /\ r.mentions_me

\* C38: on a store that started empty, every story row with mentions_me =
\* true has a comment row of that story with mentions_me = true; and a story
\* row gets the flag only in the MarkStoryMentionsMe that follows the
\* successful upsert of a flagged comment of that story, never in UpsertStory.
C38_StoryFlagComesFromComment ==
    /\ [](\A r \in stories : r.mentions_me =>
            \E c \in comments : c.story_id = r.id /\ c.mentions_me)
    /\ [][\A id \in StoryIds :
            (~Flagged(stories, id) /\ Flagged(stories', id))
            => /\ syncCall.pc = "mark"
               /\ lastCall'.op = "MarkStoryMentionsMe"
               /\ lastCall.op = "UpsertComment" /\ lastCall.ok
               /\ lastCall.row.MentionsMe
               /\ lastCall.row.StoryID = id
         ]_vars

\* C38 witness: after a second pass that stored both, a story row has the
\* flag and a flagged comment, and another story row does not have it.
C38_Witness ==
    /\ passes = 2
    /\ syncCall.pc = "done"
    /\ \E r \in stories :
          /\ r.mentions_me
          /\ StoredInPass(r.id) # {}
          /\ \E c \in comments : c.story_id = r.id /\ c.mentions_me
    /\ \E r \in stories : ~r.mentions_me /\ StoredInPass(r.id) # {}

----------------------------------------------------------------------------
(* Claims about the daemon without a username, under SpecNoName *)

HasText(a) == a.Message # <<>> \/ \E k \in DOMAIN a.Changes : a.Changes[k] # NULL

\* C36: with the username empty, every fetched activity that has a message
\* or a change with new values is notified; every stored comment with a text
\* has mentions_me = true; every UpsertComment of a comment with a text that
\* returned no error carried MentionsMe = true and is followed by
\* MarkStoryMentionsMe for its story, which leaves the story row, when there
\* is one and the update returned no error, with mentions_me = true.
C36_EmptyUsernameMatchesAll ==
    /\ [](CUsername = <<>> =>
            /\ \A a \in Fetched : HasText(a) => NotifiedFor(a)
            /\ \A c \in comments : c.text # NULL => c.mentions_me)
    /\ [][CUsername = <<>> =>
            /\ (/\ syncCall.pc = "upsertComment" /\ lastCall'.ok
                 /\ Head(syncCall.pending).Text # <<>>)
               => /\ lastCall'.row.MentionsMe
                  /\ syncCall'.pc = "mark"
            /\ (syncCall.pc = "mark" /\ syncCall'.pc # "mark")
               => /\ lastCall'.op = "MarkStoryMentionsMe"
                  /\ (lastCall'.ok /\ lastCall'.existed) =>
                        \E r \in stories' :
                            /\ r.id = syncCall.allStories[syncCall.idx].ID
                            /\ r.mentions_me
         ]_vars

\* C36 witness: with the username empty, the poll notified a story update for
\* its message and one for its new values, and left one without either
\* alone; the sync stored the comment "ok" and its story with mentions_me =
\* true.
C36_Witness ==
    /\ CUsername = <<>>
    /\ \E a \in Fetched : a.Message # <<>> /\ ~IsCommentCreate(a) /\ NotifiedFor(a)
    /\ \E a \in Fetched : a.Message = <<>> /\ HasText(a) /\ NotifiedFor(a)
    /\ \E a \in Fetched : ~HasText(a) /\ ~NotifiedFor(a)
    /\ syncCall.pc = "done"
    /\ \E c \in comments :
          /\ c.text = <<"o", "k">> /\ c.mentions_me
          /\ \E r \in stories : r.id = c.story_id /\ r.mentions_me

----------------------------------------------------------------------------
(* Claims about the credentials, under SpecCfg *)

\* LITETRACKER_TOKEN is not set.
TokenMissing == CToken = ""

\* C21 as stated: a process whose token, e-mail or password is missing sends
\* no network request.
C21_NoRequestWithoutCredentials ==
    (TokenMissing \/ ~credsSet) => net = {}

\* C21 amended: a process whose token is missing never runs and sends no
\* request; a process whose e-mail or password is missing sends no login and
\* no write request, and every write call it made returned the error of the
\* missing credentials.
C21_NoRequestWithoutThatCredential ==
    /\ TokenMissing => (net = {} /\ process.pc # "running")
    /\ ~credsSet => /\ net \cap SessionRequests = {}
                    /\ process.lastWrite \in {"none", "config error"}
                    /\ ~loggedIn

\* C21 witness: a server without e-mail or password refused a write call
\* after it had sent calls of the v5 API.
C21_Witness ==
    /\ ~credsSet
    /\ process.lastWrite = "config error"
    /\ "ListStories" \in net

====
